---- MODULE Spec2Model ----
(***************************************************************************)
(* A model of the xHCI host controller driver of HelenOS:                  *)
(*   - the transfer (producer) TRB ring, uspace/drv/bus/usb/xhci/trb_ring.c *)
(*     together with the dequeue update done by the transfer event handler *)
(*     of transfers.c and a host controller that consumes the ring;        *)
(*   - the event (consumer) ring of trb_ring.c with a host controller      *)
(*     that produces events;                                               *)
(*   - device enumeration of bus.c and rh.c.                               *)
(* Each part has a specification of its own: Spec (transfer ring),         *)
(* SpecEvent (event ring), SpecBus (enumeration).                          *)
(***************************************************************************)
EXTENDS Integers, Sequences, FiniteSets, TLC

(***************************************************************************)
(* Bounds of the model.                                                    *)
(***************************************************************************)
\* Number of TRBs of a ring segment (254 on a 4 KiB page, trb_ring.c:44);
\* scaled down so that the ring wraps within the bound on enqueues.
SEGMENT_TRB_COUNT == 5
\* Longest TD (TRBs linked by the chain bit) handed to the enqueue.
MaxTD == 2
\* Number of xhci_trb_ring_enqueue calls of a run.
MaxEnq == 5
\* Number of transfer events the driver handles in a run.
MaxEvents == 3
\* Transfer events posted by the host controller and not yet handled.
MaxEvq == 1
\* Ports of the root hub (rh->max_ports).
MaxPorts == 2
\* Device slots of the controller (hc->max_slots).
MaxSlots == 2
\* Device nodes hcd_ddf_device_create hands out in a run.
MaxDev == 2
\* Changes of the ports (attach, detach, end of reset) in a run.
MaxPortChanges == 3
\* Endpoint objects of the device, the control endpoint included.
MaxEp == 3
\* Transfer batches, each scheduled by a fibril of its own.
MaxBatch == 2
\* Bus operations and calls of xhci_transfer_schedule in a run.
MaxOps == 3
\* Transfer Events of the device's endpoints posted and not yet handled.
MaxXevq == 1
\* Largest buffer size and wLength of a transfer.
MaxSize == 2
\* Width of size_t, scaled down.
SizeBits == 3
\* Width of the TRB Transfer Length field of a Transfer Event (24 bits),
\* scaled down.
LengthBits == 2
\* Transfer Events in a run that complete no batch.
MaxOther == 1
\* Devices enumerated below the root hub and below hubs in a run.
MaxNodes == 3
\* Downstream ports 1..MaxHubPorts of a hub, and one port above 15.
MaxHubPorts == 2
\* Calls of request_address and release_address in a run.
MaxAddrOps == 3
\* Calls started by the scheduling fibril, and by the port monitor.
MaxRounds == 2

VARIABLES
    \* xhci_trb_ring_t
    ring,               \* trb_storage of the only segment: index -> TRB
    enqueue_segment,    \* position in the list of segments (1-based)
    enqueue_trb,        \* index of the enqueue TRB in its segment
    dequeue,            \* physical address mirrored from transfer events
    pcs,                \* producer cycle state
    \* the running xhci_trb_ring_enqueue call
    pc,                 \* "idle" | "dry" | "copy"
    td,                 \* the TD of the call (sequence of TRBs)
    ti,                 \* index in td of the TRB the loop is at
    saved_enqueue_trb,
    saved_enqueue_segment,
    phys,               \* *phys of the call
    ret,                \* result of the last call: "none" | "EOK" | "EAGAIN"
    \* the host controller side of the transfer ring
    hc_deq,             \* the controller's dequeue pointer (physical address)
    hc_ccs,             \* the controller's consumer cycle state
    evq,                \* transfer events posted, not yet handled
    \* history of the run (read by the properties only)
    n_enq,              \* enqueue calls begun; the running call's number
    n_ok,               \* calls that returned EOK
    n_ev,               \* transfer events handled
    wraps,              \* times the copy loop followed the last Link TRB
    ring0,              \* ring, pcs, n_ev and the distance to dequeue
    pcs0,               \*   when the running (last) call began
    ev0,
    d0,
    deq_moved,          \* dequeue was written during the call's dry run
    partial_seen,       \* the controller consumed a TRB of an unfinished TD
    all_single,         \* every TD so far had one TRB
    \* xhci_event_ring_t
    er,                 \* trb_storage of the only segment: index -> event TRB
    dequeue_segment,    \* position in the list of segments (1-based)
    dequeue_trb,        \* index of the dequeue TRB in its segment
    dequeue_ptr,        \* the ERDP value kept for the controller
    ccs,                \* consumer cycle state
    event,              \* the caller's event buffer
    er_ret,             \* result of the last xhci_event_ring_dequeue
    \* the host controller side of the event ring
    hc_enq,             \* index of the slot the controller writes next
    hc_pcs,             \* the controller's producer cycle state
    produced,           \* events written so far
    \* history of the event ring
    consumed,           \* parameters of the events dequeued with EOK
    er0,                \* the ring state when the last dequeue call began
    \* the host controller's port registers and device slots
    portsc,             \* port -> [ccs, csc, prc, pr, pls, chg]
    n_hw,               \* changes of the ports so far
    slot_enabled,       \* slot id -> the slot is enabled
    slot_addressed,     \* slot id -> Address Device has moved the slot to Addressed
    dcbaa,              \* slot id -> device whose context it points to, or 0
    \* xhci_bus_t, xhci_rh_t and the device nodes
    devs,               \* device id -> xhci_device_t
    devices_by_slot,    \* slot id -> device id, or 0 (NULL)
    devices_by_port,    \* rh->devices: port -> device id, or 0 (NULL)
    bus_guard,          \* bus->base.guard is held
    \* the fibril handling port changes
    bpc,                \* position in xhci_rh_handle_port_change
    cur_port,           \* the loop variable i
    events,             \* change bits read for the port, not yet handled
    caller,             \* the branch rh_setup_device was called from
    cur_dev,            \* the device node rh_setup_device works on
    setup_ret,          \* result of the last rh_setup_device
    cmds,               \* commands and steps of the last rh_setup_device
    asserted,           \* the assertion that failed, or "none"
    scanned,            \* ports whose PORTSC this handler call has read
    connect_ret,        \* result of handle_connected_device for port i
    \* the enumerated device (xhci_device_t) and its endpoints
    online,             \* the device's online flag
    endpoints,          \* endpoints[]: endpoint number -> endpoint, or 0 (NULL)
    active_endpoint_count,
    ring_allocated,     \* endpoint -> its ring has segments (transfer structures)
    active_batch,       \* endpoint -> ep->base.active_batch, or 0 (NULL)
    \* the controller's side of the endpoints
    ep_tds,             \* endpoint -> batches whose TD is on the ring, in order
    db,                 \* endpoint -> the doorbell was rung, the ring is run
    xevq,               \* Transfer Events posted and not yet handled
    \* the calls of xhci_transfer_schedule, one per batch at a time
    spc,                \* batch -> position of its call
    sep,                \* batch -> endpoint of its call
    sret,               \* batch -> result of its last call
    berr,               \* batch -> batch->error once finished, or "none"
    \* the fibril handling the disconnect
    dpc,                \* position in handle_disconnected_device
    \* history of endpoints and transfers
    doorbells,          \* batch -> doorbell writes (slot id, target) of its call
    enqueued,           \* batches whose call has enqueued the TD
    s_online,           \* batch -> the online flag when its call began
    went_offline,       \* the device was marked offline, not put online since
    hc_cmd,             \* the command the step just taken gave, with its result
    d0_active,          \* endpoints and batches in flight when the device was detached
    aborted,            \* endpoints xhci_transfer_abort was called for
    n_ops,              \* bus operations and schedule calls so far
    op_ret,             \* the last of them: operation, endpoint, result
    \* one transfer
    xfer,               \* the batch: transfer type, direction, setup, buffer size
    xpc,                \* position of the call and of the completion
    trbs,               \* the TRBs the handler built
    xring,              \* the TRBs on the endpoint's ring
    xlog,               \* commands, enqueues and doorbells of the call, in order
    xret,               \* result of xhci_transfer_schedule
    xactive,            \* the batch is the endpoint's active batch
    xev,                \* the last Transfer Event posted
    xev_ret,            \* "pending", or the result of its handling
    xdequeue,           \* endpoint number -> ring.dequeue of its ring
    n_other,            \* Transfer Events so far that completed no batch
    batch_error,        \* batch->error
    transfered_size,    \* batch->transfered_size
    \* the devices below the root hub, in the order of their enumeration
    nodes,              \* sequence of [hub, port, tier, route_str, rh_port]
    \* the default address
    default_address_speed,  \* bus->default_address_speed
    held,               \* a request has returned EOK and no release followed
    holders,            \* requests that returned EOK since the last release
    addr_ret,           \* the last call of request/release_address
    n_addr,             \* calls so far
    \* the fibrils sharing an endpoint and the device tables
    fpc,                \* position of each fibril
    owner,              \* the fibril holding each guard, or "none"
    g_active,           \* ep->base.active / ep->base.active_batch
    g_node,             \* devices created so far
    g_dev,              \* the port monitor's dev
    destroyed,          \* devices passed to hcd_ddf_device_destroy
    g_by_slot,          \* bus->devices_by_slot[slot], 0 is NULL
    g_by_port,          \* rh->devices[port - 1], 0 is NULL
    g_td,               \* a TD is with the controller
    g_evdev,            \* the event dispatcher's dev
    acc,                \* the access made by the last step
    rounds              \* calls started by the scheduler and the monitor

ringVars == <<ring, enqueue_segment, enqueue_trb, dequeue, pcs>>
callVars == <<pc, td, ti, saved_enqueue_trb, saved_enqueue_segment, phys, ret>>
hcVars == <<hc_deq, hc_ccs, evq>>
histVars == <<n_enq, n_ok, n_ev, wraps, ring0, pcs0, ev0, d0, deq_moved,
              partial_seen, all_single>>
erVars == <<er, dequeue_segment, dequeue_trb, dequeue_ptr, ccs, event, er_ret,
            hc_enq, hc_pcs, produced, consumed, er0>>
trVars == <<ringVars, callVars, hcVars, histVars>>
hwVars == <<portsc, n_hw, slot_enabled, slot_addressed, dcbaa>>
busVars == <<devs, devices_by_slot, devices_by_port, bus_guard>>
rhVars == <<bpc, cur_port, events, caller, cur_dev, setup_ret, cmds, asserted,
            scanned, connect_ret>>
enumVars == <<hwVars, busVars, rhVars>>
epVars == <<online, endpoints, active_endpoint_count, ring_allocated,
            active_batch, ep_tds, db, xevq, spc, sep, sret, berr, dpc,
            doorbells, enqueued, s_online, went_offline, hc_cmd, d0_active,
            aborted, n_ops, op_ret>>
tdVars == <<xfer, xpc, trbs, xring, xlog, xret, xactive, xev, xev_ret,
            xdequeue, n_other, batch_error, transfered_size>>
rtVars == <<nodes>>
adVars == <<default_address_speed, held, holders, addr_ret, n_addr>>
gdVars == <<fpc, owner, g_active, g_node, g_dev, destroyed, g_by_slot,
            g_by_port, g_td, g_evdev, acc, rounds>>
vars == <<trVars, erVars, enumVars, epVars, tdVars, rtVars, adVars, gdVars>>

(***************************************************************************)
(* TRBs.  parameter is the 64-bit parameter field: the payload of a        *)
(* transfer TRB (here the number of the enqueue call and the position of   *)
(* the TRB in its TD) or the physical address a Link TRB points to.        *)
(***************************************************************************)
ZeroTrb ==
    [type |-> "ZERO", parameter |-> <<0, 0>>, chain |-> FALSE, ioc |-> FALSE,
     cycle |-> 0, tc |-> 0]

\* The list of segments of the ring, in linked order: xhci_trb_ring_init
\* appends exactly one and nothing else ever adds to it.
segments == <<1>>

\* Physical address of a segment (one page each).
SegmentPhys(seg) == seg * 4096

\* Address of a TRB of a segment: phys + trb_id * sizeof(xhci_trb_t).
TrbPhys(seg, trb) == SegmentPhys(seg) + trb * 16

\* Index in the segment of the TRB at a physical address.
PhysTrb(addr) == (addr % 4096) \div 16

trb_ring_enqueue_phys == TrbPhys(enqueue_segment, enqueue_trb)

\* xhci_trb_link_fill: a Link TRB pointing to next_phys, all else clean.
xhci_trb_link_fill(next_phys) ==
    [ZeroTrb EXCEPT !.type = "LINK", !.parameter = <<next_phys, 0>>]

\* xhci_trb_set_cycle: sets the cycle bit and nothing else.
xhci_trb_set_cycle(trb, cycle) == [trb EXCEPT !.cycle = cycle]

\* The segment after seg in the list, the first one after the last.
NextSegment(seg) == IF seg < Len(segments) THEN seg + 1 ELSE 1

\* Mutant: the link is resolved to the second TRB of the next segment.
trb_ring_resolve_link_skip(seg) == [segment |-> NextSegment(seg), trb |-> 1]

\* trb_ring_resolve_link: the enqueue position moves to the beginning of
\* the next segment.
trb_ring_resolve_link(seg) == [segment |-> NextSegment(seg), trb |-> 0]

\* The TD of the n-th call: len TRBs, all but the last chained, the last
\* one interrupting on completion (transfers.c sets IOC on the last TRB).
MakeTD(id, len) ==
    [k \in 1..len |->
        [type |-> "NORMAL", parameter |-> <<id, k>>, chain |-> (k < len),
         ioc |-> (k = len), cycle |-> 0, tc |-> 0]]

(***************************************************************************)
(* Ring geometry, for the properties: one-slot advances of a position,     *)
(* Link TRBs resolved and not counted.                                     *)
(***************************************************************************)
LinkTrb == SEGMENT_TRB_COUNT - 1
Usable == 0..(SEGMENT_TRB_COUNT - 2)

Adv1(i) == IF i + 1 = LinkTrb THEN 0 ELSE i + 1

RECURSIVE Adv(_, _)
Adv(i, k) == IF k = 0 THEN i ELSE Adv(Adv1(i), k - 1)

\* Number (>= 1) of advances that bring position i to the address addr;
\* 0 when no number of advances does.
RECURSIVE DistFrom(_, _, _)
DistFrom(i, addr, k) ==
    IF k > SEGMENT_TRB_COUNT THEN 0
    ELSE IF TrbPhys(1, Adv(i, k)) = addr THEN k
    ELSE DistFrom(i, addr, k + 1)

Dist(i, addr) == DistFrom(i, addr, 1)

(***************************************************************************)
(* xhci_trb_ring_init                                                      *)
(***************************************************************************)
\* The segment after trb_segment_allocate (memset to 0) and the Link TRB
\* written by xhci_trb_ring_init in its last slot.
InitSegment ==
    [i \in 0..(SEGMENT_TRB_COUNT - 1) |->
        IF i = SEGMENT_TRB_COUNT - 1
        THEN xhci_trb_set_cycle(xhci_trb_link_fill(SegmentPhys(1)), 1)
        ELSE ZeroTrb]

xhci_trb_ring_init ==
    /\ ring = InitSegment
    /\ enqueue_segment = 1
    /\ enqueue_trb = 0
    /\ dequeue = SegmentPhys(1)
    /\ pcs = 1

InitCall ==
    /\ pc = "idle"
    /\ td = <<>>
    /\ ti = 0
    /\ saved_enqueue_trb = 0
    /\ saved_enqueue_segment = 1
    /\ phys = 0
    /\ ret = "none"

\* The controller starts at the ring's base with its cycle state 1 (the
\* dequeue pointer and DCS of the endpoint context).
InitHC ==
    /\ hc_deq = SegmentPhys(1)
    /\ hc_ccs = 1
    /\ evq = <<>>

InitHist ==
    /\ n_enq = 0 /\ n_ok = 0 /\ n_ev = 0 /\ wraps = 0
    /\ ring0 = InitSegment /\ pcs0 = 1 /\ ev0 = 0 /\ d0 = 0
    /\ deq_moved = FALSE /\ partial_seen = FALSE /\ all_single = TRUE

InitTransferRing == xhci_trb_ring_init /\ InitCall /\ InitHC /\ InitHist

(***************************************************************************)
(* xhci_trb_ring_enqueue, one loop iteration per step                      *)
(***************************************************************************)
\* Mutant: the dry run does not compare with dequeue.
RingFullAt_never(pos) == FALSE

\* Line 192: the advanced enqueue position has reached the dequeue address.
RingFullAt(pos) == TrbPhys(pos.segment, pos.trb) = dequeue

\* Mutant: err_again leaves the enqueue position where the dry run got to.
ErrAgainPos_kept == [segment |-> enqueue_segment, trb |-> enqueue_trb]

\* err_again (lines 229-231): the enqueue position the call leaves behind.
ErrAgainPos == [segment |-> saved_enqueue_segment, trb |-> saved_enqueue_trb]

\* Entry: lock the guard, save the enqueue position, *phys = NULL.
EnqueueBegin(len) ==
    /\ pc = "idle"
    /\ n_enq < MaxEnq
    /\ td' = MakeTD(n_enq + 1, len)
    /\ ti' = 1
    /\ saved_enqueue_trb' = enqueue_trb
    /\ saved_enqueue_segment' = enqueue_segment
    /\ phys' = 0
    /\ ret' = "none"
    /\ pc' = "dry"
    /\ n_enq' = n_enq + 1
    /\ ring0' = ring /\ pcs0' = pcs /\ ev0' = n_ev
    /\ d0' = Dist(enqueue_trb, dequeue)
    /\ deq_moved' = FALSE
    /\ all_single' = (all_single /\ len = 1)
    /\ UNCHANGED <<ringVars, hcVars, n_ok, n_ev, wraps, partial_seen>>
    /\ UNCHANGED <<erVars, enumVars, epVars, tdVars, rtVars, adVars, gdVars>>

\* One iteration of the dry run (lines 186-194), the restore after it
\* (196-199) and err_again (229-233).
DryStep ==
    /\ pc = "dry"
    /\ LET t1 == enqueue_trb + 1
           link == ring[t1].type = "LINK"
           pos == IF link THEN trb_ring_resolve_link(enqueue_segment)
                  ELSE [segment |-> enqueue_segment, trb |-> t1]
       IN IF RingFullAt(pos)
          THEN \* err_again
               /\ enqueue_segment' = ErrAgainPos.segment
               /\ enqueue_trb' = ErrAgainPos.trb
               /\ ret' = "EAGAIN"
               /\ pc' = "idle"
               /\ UNCHANGED <<ti, phys>>
          ELSE IF td[ti].chain
          THEN /\ enqueue_segment' = pos.segment
               /\ enqueue_trb' = pos.trb
               /\ ti' = ti + 1
               /\ UNCHANGED <<pc, phys, ret>>
          ELSE /\ enqueue_segment' = saved_enqueue_segment
               /\ enqueue_trb' = saved_enqueue_trb
               /\ phys' = TrbPhys(saved_enqueue_segment, saved_enqueue_trb)
               /\ ti' = 1
               /\ pc' = "copy"
               /\ UNCHANGED ret
    /\ UNCHANGED <<ring, dequeue, pcs, td, saved_enqueue_trb,
                   saved_enqueue_segment, hcVars, histVars>>
    /\ UNCHANGED <<erVars, enumVars, epVars, tdVars, rtVars, adVars, gdVars>>

\* One iteration of the copy loop (lines 205-224) and the return of EOK.
CopyStep ==
    /\ pc = "copy"
    /\ LET src == xhci_trb_set_cycle(td[ti], pcs)
           r1 == [ring EXCEPT ![enqueue_trb] = src]
           t1 == enqueue_trb + 1
           link == r1[t1].type = "LINK"
           r2 == IF link
                 THEN [r1 EXCEPT ![t1] = xhci_trb_set_cycle(r1[t1], pcs)]
                 ELSE r1
           toggle == link /\ r1[t1].tc = 1
           pos == IF link THEN trb_ring_resolve_link(enqueue_segment)
                  ELSE [segment |-> enqueue_segment, trb |-> t1]
       IN /\ ring' = r2
          /\ pcs' = IF toggle THEN 1 - pcs ELSE pcs
          /\ enqueue_segment' = pos.segment
          /\ enqueue_trb' = pos.trb
          /\ wraps' = IF link /\ enqueue_segment = Len(segments)
                      THEN wraps + 1 ELSE wraps
          /\ IF td[ti].chain
             THEN /\ ti' = ti + 1
                  /\ UNCHANGED <<pc, ret, n_ok>>
             ELSE /\ pc' = "idle"
                  /\ ret' = "EOK"
                  /\ n_ok' = n_ok + 1
                  /\ UNCHANGED ti
    /\ UNCHANGED <<dequeue, td, saved_enqueue_trb, saved_enqueue_segment,
                   phys, hcVars, n_enq, n_ev, ring0, pcs0, ev0, d0,
                   deq_moved, partial_seen, all_single>>
    /\ UNCHANGED <<erVars, enumVars, epVars, tdVars, rtVars, adVars, gdVars>>

(***************************************************************************)
(* The host controller consuming the transfer ring, and the driver's       *)
(* transfer event handler.                                                 *)
(***************************************************************************)
\* The controller executes the TRB at its dequeue pointer when the TRB's
\* cycle bit equals its cycle state: a Link TRB is followed (the cycle
\* state toggles when TC is set); a transfer TRB is consumed and, with
\* IOC, a transfer event carrying the TRB's address is posted.
HCConsume ==
    LET i == PhysTrb(hc_deq)
        t == ring[i]
    IN /\ t.cycle = hc_ccs
       /\ t.type # "ZERO"
       /\ IF t.type = "LINK"
          THEN /\ hc_deq' = t.parameter[1]
               /\ hc_ccs' = IF t.tc = 1 THEN 1 - hc_ccs ELSE hc_ccs
               /\ UNCHANGED <<evq, partial_seen>>
          ELSE /\ t.ioc => Len(evq) < MaxEvq
               /\ hc_deq' = hc_deq + 16
               /\ evq' = IF t.ioc THEN Append(evq, hc_deq) ELSE evq
               /\ partial_seen' =
                      (partial_seen \/ (pc = "copy" /\ t.parameter[1] = n_enq))
               /\ UNCHANGED hc_ccs
       /\ UNCHANGED <<ringVars, callVars, n_enq, n_ok, n_ev, wraps, ring0,
                      pcs0, ev0, d0, deq_moved, all_single>>
       /\ UNCHANGED <<erVars, enumVars, epVars, tdVars, rtVars, adVars, gdVars>>

\* xhci_handle_transfer_event, as far as the ring is concerned:
\* ep->ring.dequeue = addr, written without the ring's guard.
xhci_handle_transfer_event ==
    /\ evq # <<>>
    /\ n_ev < MaxEvents
    /\ dequeue' = Head(evq)
    /\ evq' = Tail(evq)
    /\ n_ev' = n_ev + 1
    /\ deq_moved' = (deq_moved \/ pc = "dry")
    /\ UNCHANGED <<ring, enqueue_segment, enqueue_trb, pcs, callVars,
                   hc_deq, hc_ccs, n_enq, n_ok, wraps, ring0, pcs0, ev0, d0,
                   partial_seen, all_single>>
    /\ UNCHANGED <<erVars, enumVars, epVars, tdVars, rtVars, adVars, gdVars>>

(***************************************************************************)
(* The event ring: xhci_event_ring_init, xhci_event_ring_dequeue and a     *)
(* host controller that writes events.                                     *)
(***************************************************************************)
\* Events the controller writes in a run: enough to pass the end of the
\* segment twice.
MaxProduced == 3 * SEGMENT_TRB_COUNT

ZeroEvent == [cycle |-> 0, parameter |-> 0]

\* The list of segments of the event ring: xhci_event_ring_init appends one.
er_segments == <<1>>

event_ring_dequeue_phys == TrbPhys(dequeue_segment, dequeue_trb)

xhci_event_ring_init ==
    /\ er = [i \in 0..(SEGMENT_TRB_COUNT - 1) |-> ZeroEvent]
    /\ dequeue_segment = 1
    /\ dequeue_trb = 0
    /\ dequeue_ptr = SegmentPhys(1)
    /\ ccs = 1

\* The controller's event ring enqueue pointer starts at the first ERST
\* segment with producer cycle state 1.
InitEventRing ==
    /\ xhci_event_ring_init
    /\ event = ZeroEvent
    /\ er_ret = "none"
    /\ hc_enq = 0 /\ hc_pcs = 1 /\ produced = 0
    /\ consumed = <<>>
    /\ er0 = [trb |-> ZeroEvent, ccs |-> 1, dequeue_trb |-> 0,
              dequeue_segment |-> 1, event |-> ZeroEvent, pending |-> 0]

\* Mutant: the cycle bit is compared with 1, not with CCS.
EventValid_one == er[dequeue_trb].cycle = 1

\* Line 303: the TRB at the dequeue position is a valid event.
EventValid == er[dequeue_trb].cycle = ccs

\* Mutant: CCS is kept on the wrap.
WrapCcs_kept(c) == c

\* Line 318: the consumer cycle state after the wrap around the table.
WrapCcs(c) == 1 - c

xhci_event_ring_dequeue ==
    /\ dequeue_ptr' = event_ring_dequeue_phys
    /\ er0' = [trb |-> er[dequeue_trb], ccs |-> ccs,
               dequeue_trb |-> dequeue_trb,
               dequeue_segment |-> dequeue_segment, event |-> event,
               pending |-> produced - Len(consumed)]
    /\ IF ~EventValid
       THEN /\ er_ret' = "ENOENT"
            /\ UNCHANGED <<event, dequeue_trb, dequeue_segment, ccs, consumed>>
       ELSE LET index == dequeue_trb + 1
                last == dequeue_segment = Len(er_segments)
            IN /\ event' = er[dequeue_trb]
               /\ consumed' = Append(consumed, er[dequeue_trb].parameter)
               /\ er_ret' = "EOK"
               /\ IF index >= SEGMENT_TRB_COUNT
                  THEN /\ dequeue_segment' =
                            (IF last THEN 1 ELSE dequeue_segment + 1)
                       /\ ccs' = IF last THEN WrapCcs(ccs) ELSE ccs
                       /\ dequeue_trb' = 0
                  ELSE /\ dequeue_trb' = index
                       /\ UNCHANGED <<dequeue_segment, ccs>>
    /\ UNCHANGED <<er, hc_enq, hc_pcs, produced>>
    /\ UNCHANGED <<trVars, enumVars, epVars, tdVars, rtVars, adVars, gdVars>>

\* The controller writes the next event with its producer cycle state and
\* flips that state when it wraps; it never overwrites an event that was
\* not dequeued.
HCProduce ==
    /\ produced < MaxProduced
    /\ produced - Len(consumed) < SEGMENT_TRB_COUNT
    /\ er' = [er EXCEPT ![hc_enq] = [cycle |-> hc_pcs, parameter |-> produced + 1]]
    /\ produced' = produced + 1
    /\ IF hc_enq + 1 >= SEGMENT_TRB_COUNT
       THEN hc_enq' = 0 /\ hc_pcs' = 1 - hc_pcs
       ELSE hc_enq' = hc_enq + 1 /\ UNCHANGED hc_pcs
    /\ UNCHANGED <<dequeue_segment, dequeue_trb, dequeue_ptr, ccs, event,
                   er_ret, consumed, er0>>
    /\ UNCHANGED <<trVars, enumVars, epVars, tdVars, rtVars, adVars, gdVars>>

(***************************************************************************)
(* The root hub and the bus: port registers, device slots, device nodes.   *)
(***************************************************************************)
Ports == 1..MaxPorts
Slots == 1..MaxSlots
Devs == 1..MaxDev

\* xhci_rh_get_port_speed(...)->major: the protocol of the port, read from
\* the port's speed id; odd ports are USB3 ports, even ports USB2 ports.
PortMajor(p) == IF p % 2 = 1 THEN 3 ELSE 2

\* A device node that was not handed out yet.
NoDevice ==
    [state |-> "none", usb3 |-> FALSE, port |-> 0, slot_id |-> 0,
     endpoints0 |-> FALSE]

\* xhci_rh_init and xhci_bus_init: both tables calloc'ed; no port change
\* pending, no slot enabled.
InitBus ==
    /\ portsc = [p \in Ports |->
                    [ccs |-> FALSE, csc |-> FALSE, prc |-> FALSE,
                     pr |-> FALSE, pls |-> 5, chg |-> {}]]
    /\ n_hw = 0
    /\ slot_enabled = [s \in Slots |-> FALSE]
    /\ slot_addressed = [s \in Slots |-> FALSE]
    /\ dcbaa = [s \in 0..MaxSlots |-> 0]
    /\ devs = [d \in Devs |-> NoDevice]
    /\ devices_by_slot = [s \in 0..MaxSlots |-> 0]
    /\ devices_by_port = [p \in Ports |-> 0]
    /\ bus_guard = FALSE
    /\ bpc = "idle"
    /\ cur_port = 1
    /\ events = {}
    /\ caller = "csc"
    /\ cur_dev = 0
    /\ setup_ret = "none"
    /\ cmds = <<>>
    /\ asserted = "none"
    /\ scanned = {}
    /\ connect_ret = "none"

(***************************************************************************)
(* The ports, as the hardware drives them.                                 *)
(***************************************************************************)
\* A device is attached: CCS and CSC are set; a USB3 port trains its link
\* to U0 (0), fails to (5, RxDetect) or ends in another state (7).
PortConnect(p) ==
    /\ ~portsc[p].ccs
    /\ n_hw < MaxPortChanges
    /\ n_hw' = n_hw + 1
    /\ \E l \in (IF PortMajor(p) = 3 THEN {0, 5, 7} ELSE {7}) :
          portsc' = [portsc EXCEPT ![p] =
                        [@ EXCEPT !.ccs = TRUE, !.csc = TRUE, !.pls = l]]
    /\ UNCHANGED <<slot_enabled, slot_addressed, dcbaa, busVars, rhVars>>
    /\ UNCHANGED <<trVars, erVars, epVars, tdVars, rtVars, adVars, gdVars>>

\* The device is detached: CCS is cleared, CSC set, a reset is given up.
PortDisconnect(p) ==
    /\ portsc[p].ccs
    /\ n_hw < MaxPortChanges
    /\ n_hw' = n_hw + 1
    /\ portsc' = [portsc EXCEPT ![p] =
                     [@ EXCEPT !.ccs = FALSE, !.csc = TRUE, !.pr = FALSE,
                               !.pls = 5]]
    /\ UNCHANGED <<slot_enabled, slot_addressed, dcbaa, busVars, rhVars>>
    /\ UNCHANGED <<trVars, erVars, epVars, tdVars, rtVars, adVars, gdVars>>

\* The reset of a port completes: PR is cleared and PRC set.
PortResetDone(p) ==
    /\ portsc[p].pr
    /\ n_hw < MaxPortChanges
    /\ n_hw' = n_hw + 1
    /\ portsc' = [portsc EXCEPT ![p] = [@ EXCEPT !.pr = FALSE, !.prc = TRUE]]
    /\ UNCHANGED <<slot_enabled, slot_addressed, dcbaa, busVars, rhVars>>
    /\ UNCHANGED <<trVars, erVars, epVars, tdVars, rtVars, adVars, gdVars>>

\* The change bits of PORTSC besides CSC and PRC.
OtherChanges == {"PEC", "WRC", "OCC", "PLC", "CEC"}

\* Another change of the port is flagged: the enable state or the link
\* state of a connected port, an over-current condition, or the end of a
\* warm reset or a link configuration error of a USB3 port. Nothing but
\* the read at rh.c 291 looks at these bits, so the step is taken when
\* that read of the port is next.
PortChange(p, bit) ==
    /\ bpc = "port" /\ cur_port = p
    /\ bit \notin portsc[p].chg
    /\ bit \in {"PEC", "PLC"} => portsc[p].ccs
    /\ bit \in {"WRC", "CEC"} => PortMajor(p) = 3
    /\ n_hw < MaxPortChanges
    /\ n_hw' = n_hw + 1
    /\ portsc' = [portsc EXCEPT ![p] = [@ EXCEPT !.chg = @ \cup {bit}]]
    /\ UNCHANGED <<slot_enabled, slot_addressed, dcbaa, busVars, rhVars>>
    /\ UNCHANGED <<trVars, erVars, epVars, tdVars, rtVars, adVars, gdVars>>

(***************************************************************************)
(* xhci_rh_handle_port_change                                              *)
(***************************************************************************)
\* rh.c 53-61: the bits of PORTSC that flag a change.
port_change_mask == {"CSC", "PEC", "WRC", "OCC", "PRC", "PLC", "CEC"}

\* The change bits that are set in a PORTSC value.
ChangeBits(reg) ==
    (IF reg.csc THEN {"CSC"} ELSE {}) \cup (IF reg.prc THEN {"PRC"} ELSE {})
       \cup reg.chg

\* Line 292: PORTSC after the value read from it is written back; a change
\* bit written as 1 is cleared.
WriteBack_csc(reg, value) ==
    [reg EXCEPT !.csc = @ /\ "CSC" \notin value]

WriteBack(reg, value) ==
    [reg EXCEPT !.csc = @ /\ "CSC" \notin value,
                !.prc = @ /\ "PRC" \notin value,
                !.chg = @ \ value]

\* A Port Status Change Event arrives; the port it names (line 273) is
\* logged only, the handler starts at port 1.
xhci_rh_handle_port_status_change_event ==
    /\ bpc = "idle"
    /\ \E port_id \in Ports :
          /\ bpc' = "port"
          /\ cur_port' = 1
          /\ scanned' = {}
    /\ UNCHANGED <<hwVars, busVars, events, caller, cur_dev, setup_ret,
                   cmds, asserted, connect_ret>>
    /\ UNCHANGED <<trVars, erVars, epVars, tdVars, rtVars, adVars, gdVars>>

\* Lines 289-294: the change bits of the port are read and written back,
\* which clears them.
ReadPortEvents ==
    /\ bpc = "port"
    /\ LET value == ChangeBits(portsc[cur_port])
       IN /\ portsc' = [portsc EXCEPT ![cur_port] = WriteBack(@, value)]
          /\ events' = value \cap port_change_mask
    /\ scanned' = scanned \cup {cur_port}
    /\ bpc' = "csc"
    /\ UNCHANGED <<n_hw, slot_enabled, slot_addressed, dcbaa, busVars,
                   cur_port, caller,
                   cur_dev, setup_ret, cmds, asserted, connect_ret>>
    /\ UNCHANGED <<trVars, erVars, epVars, tdVars, rtVars, adVars, gdVars>>

\* rh.c 153-165: what handle_connected_device returns for a USB3 port
\* before rh_setup_device has run: nothing yet in link state 0, EAGAIN in
\* link state 5, EINVAL in any other.
LinkStateError_eagain(link_state) ==
    IF link_state = 0 THEN "none" ELSE "EAGAIN"

LinkStateError(link_state) ==
    IF link_state = 0 THEN "none"
    ELSE IF link_state = 5 THEN "EAGAIN" ELSE "EINVAL"

\* Lines 296-306 with handle_connected_device: on CSC the port's CCS is
\* read; a connected USB3 port in link state 0 is set up, a connected
\* USB2 port is reset (xhci_rh_reset_port), a port that is not connected
\* goes to handle_disconnected_device.
HandleCsc ==
    /\ bpc = "csc"
    /\ events' = events \ {"CSC"}
    /\ IF "CSC" \notin events
       THEN bpc' = "prc" /\ UNCHANGED <<portsc, caller, connect_ret>>
       ELSE IF ~portsc[cur_port].ccs
       THEN bpc' = "disconnect" /\ UNCHANGED <<portsc, caller, connect_ret>>
       ELSE IF PortMajor(cur_port) = 3
       THEN /\ bpc' = IF portsc[cur_port].pls = 0 THEN "setup" ELSE "prc"
            /\ connect_ret' = LinkStateError(portsc[cur_port].pls)
            /\ caller' = "csc"
            /\ UNCHANGED portsc
       ELSE /\ portsc' = [portsc EXCEPT ![cur_port] = [@ EXCEPT !.pr = TRUE]]
            /\ bpc' = "prc"
            /\ connect_ret' = "EOK"
            /\ UNCHANGED caller
    /\ UNCHANGED <<n_hw, slot_enabled, slot_addressed, dcbaa, busVars,
                   cur_port, cur_dev,
                   setup_ret, cmds, asserted, scanned>>
    /\ UNCHANGED <<trVars, erVars, epVars, tdVars, rtVars, adVars, gdVars>>

\* Lines 308-334: PEC, WRC and OCC are logged and dropped; on PRC a port
\* that is not a USB3 port is set up. The steps logged by the call made
\* for CSC are dropped.
HandlePrc ==
    /\ bpc = "prc"
    /\ events' = events \ {"PEC", "WRC", "OCC", "PRC"}
    /\ IF "PRC" \in events /\ PortMajor(cur_port) # 3
       THEN bpc' = "setup" /\ caller' = "prc"
       ELSE bpc' = "next" /\ UNCHANGED caller
    /\ cmds' = <<>>
    /\ UNCHANGED <<hwVars, busVars, cur_port, cur_dev, setup_ret,
                   asserted, scanned, connect_ret>>
    /\ UNCHANGED <<trVars, erVars, epVars, tdVars, rtVars, adVars, gdVars>>

\* Lines 336-348 and the end of the loop body: PLC and CEC are logged and
\* dropped; then the next port, or the end of the handler.
NextPort ==
    /\ bpc = "next"
    /\ events' = events \ {"PLC", "CEC"}
    /\ connect_ret' = "none"
    /\ IF cur_port < MaxPorts
       THEN cur_port' = cur_port + 1 /\ bpc' = "port"
       ELSE cur_port' = 1 /\ bpc' = "idle"
    /\ UNCHANGED <<hwVars, busVars, caller, cur_dev, setup_ret,
                   cmds, asserted, scanned>>
    /\ UNCHANGED <<trVars, erVars, epVars, tdVars, rtVars, adVars, gdVars>>

(***************************************************************************)
(* rh_setup_device, xhci_bus_enumerate_device and address_device, one call *)
(* that can fail per step.                                                 *)
(***************************************************************************)
\* The device node hcd_ddf_device_create hands out next, 0 when none is
\* left.
FreshDev ==
    IF \E d \in Devs : devs[d].state = "none"
    THEN CHOOSE d \in Devs :
            /\ devs[d].state = "none"
            /\ \A e \in Devs : devs[e].state = "none" => d <= e
    ELSE 0

\* hc_disable_slot: the Disable Slot command; it fails on a slot id that
\* is not the id of an enabled slot.
hc_disable_slot(en, slot_id) ==
    IF slot_id \in Slots THEN [en EXCEPT ![slot_id] = FALSE] ELSE en

\* rh_setup_device returns err.
SetupReturn(err) ==
    /\ setup_ret' = err
    /\ bpc' = "ret"

\* rh.c 99-112: the device node is created and filled in.
CreateDevice ==
    /\ bpc = "setup"
    /\ \E ok \in BOOLEAN :
          IF ok /\ FreshDev # 0
          THEN /\ devs' = [devs EXCEPT ![FreshDev] =
                              [state |-> "live",
                               usb3 |-> (PortMajor(cur_port) = 3),
                               port |-> cur_port, slot_id |-> 0,
                               endpoints0 |-> FALSE]]
               /\ cur_dev' = FreshDev
               /\ bpc' = "lock"
               /\ UNCHANGED setup_ret
          ELSE /\ SetupReturn("ENOMEM")
               /\ UNCHANGED <<devs, cur_dev>>
    /\ UNCHANGED <<hwVars, devices_by_slot, devices_by_port, bus_guard,
                   cur_port, events, caller, cmds, asserted,
                   scanned, connect_ret>>
    /\ UNCHANGED <<trVars, erVars, epVars, tdVars, rtVars, adVars, gdVars>>

\* bus.c 133-156: TT and route string, then the bus guard is taken; the
\* fibril waits while the guard is held.
LockBusGuard ==
    /\ bpc = "lock"
    /\ ~bus_guard
    /\ bus_guard' = TRUE
    /\ bpc' = "enable_slot"
    /\ UNCHANGED <<hwVars, devs, devices_by_slot, devices_by_port, cur_port,
                   events, caller, cur_dev, setup_ret, cmds, asserted,
                   scanned, connect_ret>>
    /\ UNCHANGED <<trVars, erVars, epVars, tdVars, rtVars, adVars, gdVars>>

\* bus.c 86-87: Enable Slot; the controller hands out a slot that is not
\* enabled. On failure address_device and xhci_bus_enumerate_device
\* (line 160) return the error.
EnableSlot ==
    /\ bpc = "enable_slot"
    /\ cmds' = Append(cmds, "ENABLE_SLOT")
    /\ \/ \E s \in Slots :
            /\ ~slot_enabled[s]
            /\ slot_enabled' = [slot_enabled EXCEPT ![s] = TRUE]
            /\ devs' = [devs EXCEPT ![cur_dev] = [@ EXCEPT !.slot_id = s]]
            /\ bpc' = "create_ep0"
            /\ UNCHANGED setup_ret
       \/ /\ SetupReturn("ERR")
          /\ UNCHANGED <<slot_enabled, devs>>
    /\ UNCHANGED <<portsc, n_hw, slot_addressed, dcbaa, devices_by_slot,
                   devices_by_port, bus_guard, cur_port, events, caller,
                   cur_dev, asserted, scanned, connect_ret>>
    /\ UNCHANGED <<trVars, erVars, epVars, tdVars, rtVars, adVars, gdVars>>

\* bus.c 91-93: create_endpoint; on NULL err_slot disables the slot and
\* returns err, which is still the EOK of hc_enable_slot, so that
\* xhci_bus_enumerate_device goes on to its assertions.
CreateEp0 ==
    /\ bpc = "create_ep0"
    /\ \/ /\ bpc' = "prepare_ep0"
          /\ UNCHANGED <<slot_enabled, slot_addressed, cmds>>
       \/ /\ slot_enabled' = hc_disable_slot(slot_enabled, devs[cur_dev].slot_id)
          /\ slot_addressed' =
                hc_disable_slot(slot_addressed, devs[cur_dev].slot_id)
          /\ cmds' = Append(cmds, "DISABLE_SLOT")
          /\ bpc' = "install"
    /\ UNCHANGED <<portsc, n_hw, dcbaa, busVars, cur_port, events, caller,
                   cur_dev, setup_ret, asserted, scanned, connect_ret>>
    /\ UNCHANGED <<trVars, erVars, epVars, tdVars, rtVars, adVars, gdVars>>

\* bus.c 100-101: prepare_endpoint; on failure err_ep and err_slot.
PrepareEp0 ==
    /\ bpc = "prepare_ep0"
    /\ \/ /\ bpc' = "add_ep0"
          /\ UNCHANGED <<slot_enabled, slot_addressed, cmds, setup_ret>>
       \/ /\ slot_enabled' = hc_disable_slot(slot_enabled, devs[cur_dev].slot_id)
          /\ slot_addressed' =
                hc_disable_slot(slot_addressed, devs[cur_dev].slot_id)
          /\ cmds' = Append(cmds, "DISABLE_SLOT")
          /\ SetupReturn("ERR")
    /\ UNCHANGED <<portsc, n_hw, dcbaa, busVars, cur_port, events, caller,
                   cur_dev, asserted, scanned, connect_ret>>
    /\ UNCHANGED <<trVars, erVars, epVars, tdVars, rtVars, adVars, gdVars>>

\* bus.c 104-105: xhci_device_add_endpoint registers EP0 in endpoints[0];
\* on failure err_prepared, err_ep and err_slot.
AddEp0 ==
    /\ bpc = "add_ep0"
    /\ \/ /\ devs' = [devs EXCEPT ![cur_dev] = [@ EXCEPT !.endpoints0 = TRUE]]
          /\ cmds' = Append(cmds, "EP0")
          /\ bpc' = "address"
          /\ UNCHANGED <<slot_enabled, slot_addressed, setup_ret>>
       \/ /\ slot_enabled' = hc_disable_slot(slot_enabled, devs[cur_dev].slot_id)
          /\ slot_addressed' =
                hc_disable_slot(slot_addressed, devs[cur_dev].slot_id)
          /\ cmds' = Append(cmds, "DISABLE_SLOT")
          /\ SetupReturn("ERR")
          /\ UNCHANGED devs
    /\ UNCHANGED <<portsc, n_hw, dcbaa, devices_by_slot, devices_by_port,
                   bus_guard, cur_port, events, caller, cur_dev, asserted,
                   scanned, connect_ret>>
    /\ UNCHANGED <<trVars, erVars, epVars, tdVars, rtVars, adVars, gdVars>>

\* bus.c 108-113: hc_address_device points the slot's DCBAA entry to the
\* device context and issues Address Device; on failure the entry is
\* cleared again and err_added removes EP0, then err_prepared to err_slot.
AddressDevice ==
    /\ bpc = "address"
    /\ \/ /\ dcbaa' = [dcbaa EXCEPT ![devs[cur_dev].slot_id] = cur_dev]
          /\ slot_addressed' =
                [slot_addressed EXCEPT ![devs[cur_dev].slot_id] = TRUE]
          /\ cmds' = Append(cmds, "ADDRESS_DEVICE")
          /\ bpc' = "install"
          /\ UNCHANGED <<slot_enabled, devs, setup_ret>>
       \/ /\ devs' = [devs EXCEPT ![cur_dev] = [@ EXCEPT !.endpoints0 = FALSE]]
          /\ slot_enabled' = hc_disable_slot(slot_enabled, devs[cur_dev].slot_id)
          /\ slot_addressed' =
                hc_disable_slot(slot_addressed, devs[cur_dev].slot_id)
          /\ cmds' = cmds \o <<"ADDRESS_DEVICE", "DISABLE_SLOT">>
          /\ SetupReturn("ERR")
          /\ UNCHANGED dcbaa
    /\ UNCHANGED <<portsc, n_hw, devices_by_slot, devices_by_port,
                   bus_guard, cur_port, events, caller, cur_dev, asserted,
                   scanned, connect_ret>>
    /\ UNCHANGED <<trVars, erVars, epVars, tdVars, rtVars, adVars, gdVars>>

\* bus.c 164-168: the two assertions (a failed one aborts the driver), the
\* device is installed in devices_by_slot and the guard released.
InstallDevice ==
    /\ bpc = "install"
    /\ LET s == devs[cur_dev].slot_id
       IN IF ~devs[cur_dev].endpoints0
          THEN /\ asserted' = "endpoints0"
               /\ bpc' = "abort"
               /\ UNCHANGED <<devices_by_slot, bus_guard, cmds>>
          ELSE IF devices_by_slot[s] # 0
          THEN /\ asserted' = "devices_by_slot"
               /\ bpc' = "abort"
               /\ UNCHANGED <<devices_by_slot, bus_guard, cmds>>
          ELSE /\ devices_by_slot' = [devices_by_slot EXCEPT ![s] = cur_dev]
               /\ bus_guard' = FALSE
               /\ cmds' = Append(cmds, "INSTALL")
               /\ bpc' = "explore"
               /\ UNCHANGED asserted
    /\ UNCHANGED <<hwVars, devs, devices_by_port, cur_port, events, caller,
                   cur_dev, setup_ret, scanned, connect_ret>>
    /\ UNCHANGED <<trVars, erVars, epVars, tdVars, rtVars, adVars, gdVars>>

\* bus.c 171-180: hcd_ddf_device_explore; on failure err_address releases
\* the address and returns the error.
ExploreDevice ==
    /\ bpc = "explore"
    /\ \/ bpc' = "bind" /\ UNCHANGED setup_ret
       \/ SetupReturn("ERR")
    /\ UNCHANGED <<hwVars, busVars, cur_port, events, caller, cur_dev, cmds,
                   asserted, scanned, connect_ret>>
    /\ UNCHANGED <<trVars, erVars, epVars, tdVars, rtVars, adVars, gdVars>>

\* rh.c 119-126 and 138-140: ddf_fun_bind; on failure the device node is
\* destroyed.
BindDevice ==
    /\ bpc = "bind"
    /\ \/ /\ bpc' = "save"
          /\ UNCHANGED <<devs, setup_ret>>
       \/ /\ devs' = [devs EXCEPT ![cur_dev] = [@ EXCEPT !.state = "destroyed"]]
          /\ SetupReturn("ERR")
    /\ UNCHANGED <<hwVars, devices_by_slot, devices_by_port, bus_guard,
                   cur_port, events, caller, cur_dev, cmds, asserted,
                   scanned, connect_ret>>
    /\ UNCHANGED <<trVars, erVars, epVars, tdVars, rtVars, adVars, gdVars>>

\* rh.c 130-133: the entry of the port after the save; the device is saved
\* only if it is the first one connected to the port.
SavedDevice(p, d) == IF devices_by_port[p] = 0 THEN d ELSE devices_by_port[p]

\* rh.c 128-136: the device is saved by its port, rh_setup_device
\* returns EOK.
SaveDevice ==
    /\ bpc = "save"
    /\ devices_by_port' =
          [devices_by_port EXCEPT ![cur_port] = SavedDevice(cur_port, cur_dev)]
    /\ SetupReturn("EOK")
    /\ UNCHANGED <<hwVars, devs, devices_by_slot, bus_guard, cur_port, events,
                   caller, cur_dev, cmds, asserted, scanned, connect_ret>>
    /\ UNCHANGED <<trVars, erVars, epVars, tdVars, rtVars, adVars, gdVars>>

\* The caller of rh_setup_device drops the result and goes on;
\* handle_connected_device (line 155) has returned it.
SetupDone ==
    /\ bpc = "ret"
    /\ bpc' = IF caller = "csc" THEN "prc" ELSE "next"
    /\ connect_ret' = IF caller = "csc" THEN setup_ret ELSE connect_ret
    /\ setup_ret' = "none"
    /\ cmds' = <<>>
    /\ cur_dev' = 0
    /\ UNCHANGED <<hwVars, busVars, cur_port, events, caller, asserted,
                   scanned>>
    /\ UNCHANGED <<trVars, erVars, epVars, tdVars, rtVars, adVars, gdVars>>

(***************************************************************************)
(* handle_disconnected_device with xhci_bus_remove_device                  *)
(***************************************************************************)
\* The calls handle_disconnected_device makes for a device in slot s, in
\* their order: rh.c line 227 (unbind), 233 (EP0), 239 (deconfigure); in
\* xhci_bus_remove_device bus.c line 216 (unbind), 232 (Disable Slot) and
\* 244 (destroy); then rh.c line 254, which reads dev->slot_id from the
\* destroyed device, finds stale and issues Disable Slot for it, and
\* line 260 (destroy).
Teardown(s, stale) ==
    <<"UNBIND", "REMOVE_EP0", "DECONFIGURE", "UNBIND", "DISABLE_SLOT",
      "DESTROY", "READ_DESTROYED",
      IF stale = s THEN "DISABLE_SLOT" ELSE "DISABLE_OTHER_SLOT", "DESTROY">>

\* rh.c 181-267: the device saved by the port goes offline and leaves
\* rh->devices; EP0 is unregistered; xhci_bus_remove_device (bus.c
\* 185-247) disables the slot, clears the DCBAA entry and devices_by_slot
\* and destroys the device node. Line 254 then reads slot_id from the
\* destroyed node and disables that slot: any slot id, or none.
handle_disconnected_device ==
    /\ bpc = "disconnect"
    /\ bpc' = "prc"
    /\ LET d == devices_by_port[cur_port]
       IN IF d = 0
          THEN UNCHANGED <<slot_enabled, slot_addressed, dcbaa, devs,
                           devices_by_slot, devices_by_port, cmds>>
          ELSE LET s == devs[d].slot_id
               IN /\ devices_by_port' = [devices_by_port EXCEPT ![cur_port] = 0]
                  /\ devs' = [devs EXCEPT ![d] =
                                 [@ EXCEPT !.state = "destroyed",
                                           !.endpoints0 = FALSE]]
                  /\ dcbaa' = [dcbaa EXCEPT ![s] = 0]
                  /\ devices_by_slot' = [devices_by_slot EXCEPT ![s] = 0]
                  /\ \E stale \in 0..MaxSlots :
                        /\ slot_enabled' =
                              hc_disable_slot(hc_disable_slot(slot_enabled, s),
                                              stale)
                        /\ slot_addressed' =
                              hc_disable_slot(hc_disable_slot(slot_addressed, s),
                                              stale)
                        /\ cmds' = Teardown(s, stale)
    /\ UNCHANGED <<portsc, n_hw, bus_guard, cur_port, events, caller,
                   cur_dev, setup_ret, asserted, scanned, connect_ret>>
    /\ UNCHANGED <<trVars, erVars, epVars, tdVars, rtVars, adVars, gdVars>>

NextBus ==
    \/ \E p \in Ports : PortConnect(p)
    \/ \E p \in Ports : PortDisconnect(p)
    \/ \E p \in Ports : PortResetDone(p)
    \/ \E p \in Ports : \E bit \in OtherChanges : PortChange(p, bit)
    \/ xhci_rh_handle_port_status_change_event
    \/ ReadPortEvents
    \/ HandleCsc
    \/ HandlePrc
    \/ NextPort
    \/ CreateDevice
    \/ LockBusGuard
    \/ EnableSlot
    \/ CreateEp0
    \/ PrepareEp0
    \/ AddEp0
    \/ AddressDevice
    \/ InstallDevice
    \/ ExploreDevice
    \/ BindDevice
    \/ SaveDevice
    \/ SetupDone
    \/ handle_disconnected_device

(***************************************************************************)
(* Endpoints and transfers of one device: the device the root hub has      *)
(* enumerated on its first port.  Endpoint objects are numbered from 1,    *)
(* batches from 1; 0 is NULL.                                              *)
(***************************************************************************)
\* The device node, and the root hub port it is attached to.
Dev == 1
DevPort == 1

Eps == 1..MaxEp
Batches == 1..MaxBatch

\* ep->base.endpoint, set from the descriptor by prepare_endpoint: object 1
\* is the control endpoint 0; two objects share each other number, one IN
\* and one OUT.
EndpointNumber(e) == e \div 2
EndpointIn(e) == e % 2 = 0
EpNums == 0..(MaxEp \div 2)

\* DCI = 2 * endpoint number + direction bit (set for IN and for control).
xhci_endpoint_dci(e) ==
    2 * EndpointNumber(e) + (IF EndpointNumber(e) = 0 \/ EndpointIn(e) THEN 1 ELSE 0)

\* Index of the endpoint context in the device context.
xhci_endpoint_index(e) == xhci_endpoint_dci(e) - 1

\* No command given: the value of hc_cmd after a step that is neither
\* online_device nor offline_device reaching its command.
NoCommand == [cmd |-> "none", ret |-> "none"]

\* xhci_bus_init: no device, no endpoint, no batch.
InitEp ==
    /\ online = FALSE
    /\ endpoints = [n \in EpNums |-> 0]
    /\ active_endpoint_count = 0
    /\ ring_allocated = [e \in Eps |-> FALSE]
    /\ active_batch = [e \in Eps |-> 0]
    /\ ep_tds = [e \in Eps |-> <<>>]
    /\ db = [e \in Eps |-> FALSE]
    /\ doorbells = [b \in Batches |-> <<>>]
    /\ enqueued = {}
    /\ xevq = <<>>
    /\ spc = [b \in Batches |-> "idle"]
    /\ sep = [b \in Batches |-> 1]
    /\ sret = [b \in Batches |-> "none"]
    /\ s_online = [b \in Batches |-> FALSE]
    /\ went_offline = FALSE
    /\ hc_cmd = NoCommand
    /\ berr = [b \in Batches |-> "none"]
    /\ dpc = "none"
    /\ d0_active = {}
    /\ aborted = {}
    /\ n_ops = 0
    /\ op_ret = [op |-> "none", ep |-> 0, ret |-> "none"]

\* The state rh_setup_device leaves when it has returned EOK for the first
\* device, attached to port DevPort and given slot 1: slot enabled and
\* addressed, EP0 registered with its ring allocated, the device in both
\* tables and not yet online.
InitEnumerated ==
    /\ portsc = [p \in Ports |->
                    [ccs |-> (p = DevPort), csc |-> FALSE, prc |-> FALSE,
                     pr |-> FALSE, pls |-> IF p = DevPort THEN 0 ELSE 5,
                     chg |-> {}]]
    /\ n_hw = 0
    /\ slot_enabled = [s \in Slots |-> s = 1]
    /\ slot_addressed = [s \in Slots |-> s = 1]
    /\ dcbaa = [s \in 0..MaxSlots |-> IF s = 1 THEN Dev ELSE 0]
    /\ devs = [d \in Devs |->
                  IF d = Dev
                  THEN [state |-> "live", usb3 |-> (PortMajor(DevPort) = 3),
                        port |-> DevPort, slot_id |-> 1, endpoints0 |-> TRUE]
                  ELSE NoDevice]
    /\ devices_by_slot = [s \in 0..MaxSlots |-> IF s = 1 THEN Dev ELSE 0]
    /\ devices_by_port = [p \in Ports |-> IF p = DevPort THEN Dev ELSE 0]
    /\ bus_guard = FALSE
    /\ bpc = "idle"
    /\ cur_port = 1
    /\ events = {}
    /\ caller = "csc"
    /\ cur_dev = 0
    /\ setup_ret = "none"
    /\ cmds = <<>>
    /\ asserted = "none"
    /\ scanned = {}
    /\ connect_ret = "none"
    /\ online = FALSE
    /\ endpoints = [n \in EpNums |-> IF n = 0 THEN 1 ELSE 0]
    /\ active_endpoint_count = 1
    /\ ring_allocated = [e \in Eps |-> e = 1]
    /\ active_batch = [e \in Eps |-> 0]
    /\ ep_tds = [e \in Eps |-> <<>>]
    /\ db = [e \in Eps |-> FALSE]
    /\ doorbells = [b \in Batches |-> <<>>]
    /\ enqueued = {}
    /\ xevq = <<>>
    /\ spc = [b \in Batches |-> "idle"]
    /\ sep = [b \in Batches |-> 1]
    /\ sret = [b \in Batches |-> "none"]
    /\ s_online = [b \in Batches |-> FALSE]
    /\ went_offline = FALSE
    /\ hc_cmd = NoCommand
    /\ berr = [b \in Batches |-> "none"]
    /\ dpc = "none"
    /\ d0_active = {}
    /\ aborted = {}
    /\ n_ops = 0
    /\ op_ret = [op |-> "none", ep |-> 0, ret |-> "none"]

\* The device node exists.
DevLive == devs[Dev].state = "live"

\* The endpoint object is the one registered under its number.
Registered(e) == endpoints[EndpointNumber(e)] = e

\* A bus operation or a call of xhci_transfer_schedule has been made.
OpDone(op, e, r) ==
    /\ n_ops' = n_ops + 1
    /\ op_ret' = [op |-> op, ep |-> e, ret |-> r]

(***************************************************************************)
(* xhci_device_add_endpoint and xhci_device_remove_endpoint, on the pair   *)
(* of endpoints[] and active_endpoint_count.                               *)
(***************************************************************************)
\* The error of xhci_device_add_endpoint: an offline device takes no
\* endpoint but endpoint 0, and a number is taken once.
AddError_online(e) ==
    IF endpoints[EndpointNumber(e)] # 0 THEN "EEXIST"
    ELSE "EOK"

AddError(e) ==
    IF ~online /\ EndpointNumber(e) > 0 THEN "EAGAIN"
    ELSE IF endpoints[EndpointNumber(e)] # 0 THEN "EEXIST"
    ELSE "EOK"

xhci_device_add_endpoint(d, e) ==
    [endpoints |-> [d.endpoints EXCEPT ![EndpointNumber(e)] = e],
     count |-> (d.count + 1) % 256]

xhci_device_remove_endpoint_kept(d, e) ==
    [endpoints |-> [d.endpoints EXCEPT ![EndpointNumber(e)] = 0],
     count |-> d.count]

xhci_device_remove_endpoint(d, e) ==
    [endpoints |-> [d.endpoints EXCEPT ![EndpointNumber(e)] = 0],
     count |-> (d.count + 255) % 256]

\* The endpoints of the set removed one after the other, as the loops of
\* offline_device and xhci_bus_remove_device do.
RECURSIVE RemoveEndpoints(_, _)
RemoveEndpoints(d, S) ==
    IF S = {} THEN d
    ELSE LET e == CHOOSE x \in S : \A y \in S : x <= y
         IN RemoveEndpoints(xhci_device_remove_endpoint(d, e), S \ {e})

DevEndpoints == [endpoints |-> endpoints, count |-> active_endpoint_count]

\* The endpoint objects registered under the numbers of the set.
EndpointsAt(nums) == {endpoints[n] : n \in nums} \ {0}

(***************************************************************************)
(* Bus operations (bus.c)                                                  *)
(***************************************************************************)
\* bus.c 278-307: hc_configure_device gives its command, which succeeds or
\* fails (a failure is only logged); the device goes online; ddf_fun_online
\* gives the result.
online_device ==
    /\ DevLive /\ dpc = "none"
    /\ n_ops < MaxOps
    /\ \E err \in {"EOK", "ERR"} :
          hc_cmd' = [cmd |-> "configure", ret |-> err]
    /\ online' = TRUE
    /\ went_offline' = FALSE
    /\ \E r \in {"EOK", "ERR"} : OpDone("online", 0, r)
    /\ UNCHANGED <<endpoints, active_endpoint_count, ring_allocated,
                   active_batch, ep_tds, db, doorbells, enqueued, xevq, spc,
                   sep, sret, s_online, berr, dpc, d0_active, aborted>>
    /\ UNCHANGED <<trVars, erVars, enumVars, tdVars, rtVars, adVars, gdVars>>

\* bus.c 309-366: ddf_fun_offline; the device goes offline; every endpoint
\* but endpoint 0 is removed from the device, hc_deconfigure_device gives
\* its command (a failure is only logged) and the transfer structures of
\* the removed endpoints are freed.
offline_device ==
    /\ DevLive /\ dpc = "none"
    /\ n_ops < MaxOps
    /\ \/ /\ OpDone("offline", 0, "ERR")
          /\ hc_cmd' = NoCommand
          /\ UNCHANGED <<online, went_offline, endpoints,
                         active_endpoint_count, ring_allocated>>
       \/ LET removed == EndpointsAt(EpNums \ {0})
              d == RemoveEndpoints(DevEndpoints, removed)
          IN /\ online' = FALSE
             /\ went_offline' = TRUE
             /\ \E err \in {"EOK", "ERR"} :
                   hc_cmd' = [cmd |-> "deconfigure", ret |-> err]
             /\ endpoints' = d.endpoints
             /\ active_endpoint_count' = d.count
             /\ ring_allocated' =
                   [e \in Eps |-> ring_allocated[e] /\ e \notin removed]
             /\ OpDone("offline", 0, "EOK")
    /\ UNCHANGED <<active_batch, ep_tds, db, doorbells, enqueued, xevq, spc,
                   sep, sret, s_online, berr, dpc, d0_active, aborted>>
    /\ UNCHANGED <<trVars, erVars, enumVars, tdVars, rtVars, adVars, gdVars>>

\* bus.c 392-421: prepare_endpoint allocates the transfer structures,
\* xhci_device_add_endpoint enters the endpoint, hc_add_endpoint tells the
\* controller; err_added removes the endpoint again and err_prepared frees
\* the transfer structures.
register_endpoint(e) ==
    /\ DevLive /\ dpc \in {"none", "detached"}
    /\ n_ops < MaxOps
    /\ ~Registered(e)
    /\ \E prepared, added \in BOOLEAN :
          LET d1 == xhci_device_add_endpoint(DevEndpoints, e)
              d2 == xhci_device_remove_endpoint(d1, e)
          IN IF ~prepared
             THEN /\ OpDone("register", e, "ENOMEM")
                  /\ UNCHANGED <<endpoints, active_endpoint_count,
                                 ring_allocated>>
             ELSE IF AddError(e) # "EOK"
             THEN /\ ring_allocated' = [ring_allocated EXCEPT ![e] = FALSE]
                  /\ OpDone("register", e, AddError(e))
                  /\ UNCHANGED <<endpoints, active_endpoint_count>>
             ELSE IF ~added
             THEN /\ endpoints' = d2.endpoints
                  /\ active_endpoint_count' = d2.count
                  /\ ring_allocated' = [ring_allocated EXCEPT ![e] = FALSE]
                  /\ OpDone("register", e, "ERR")
             ELSE /\ endpoints' = d1.endpoints
                  /\ active_endpoint_count' = d1.count
                  /\ ring_allocated' = [ring_allocated EXCEPT ![e] = TRUE]
                  /\ OpDone("register", e, "EOK")
    /\ UNCHANGED <<online, active_batch, ep_tds, db, doorbells, enqueued,
                   xevq, spc, sep, sret, s_online, berr, dpc, d0_active,
                   aborted>>
    /\ UNCHANGED went_offline /\ hc_cmd' = NoCommand
    /\ UNCHANGED <<trVars, erVars, enumVars, tdVars, rtVars, adVars, gdVars>>

\* bus.c 423-447: the endpoint is removed from the device and dropped from
\* the controller (a failure is only logged); its transfer structures are
\* kept.
unregister_endpoint(e) ==
    /\ DevLive /\ dpc = "none"
    /\ n_ops < MaxOps
    /\ Registered(e)
    /\ LET d == xhci_device_remove_endpoint(DevEndpoints, e)
       IN /\ endpoints' = d.endpoints
          /\ active_endpoint_count' = d.count
    /\ devs' = [devs EXCEPT ![Dev] =
                   [@ EXCEPT !.endpoints0 = @ /\ EndpointNumber(e) # 0]]
    /\ OpDone("unregister", e, "EOK")
    /\ UNCHANGED <<online, ring_allocated, active_batch, ep_tds, db,
                   doorbells, enqueued, xevq, spc, sep, sret, s_online, berr,
                   dpc, d0_active, aborted>>
    /\ UNCHANGED went_offline /\ hc_cmd' = NoCommand
    /\ UNCHANGED <<hwVars, devices_by_slot, devices_by_port, bus_guard, rhVars>>
    /\ UNCHANGED <<trVars, erVars, tdVars, rtVars, adVars, gdVars>>

(***************************************************************************)
(* xhci_transfer_schedule (transfers.c 300-353), one call per batch at a   *)
(* time                                                                    *)
(***************************************************************************)
\* Line 310: an offline device takes transfers to endpoint 0 only.
OfflineRefused_never(e) == FALSE

OfflineRefused(e) == ~online /\ EndpointNumber(e) > 0

\* endpoint_activate_locked: the synchronization is performed using the
\* active flag of the base endpoint; the caller waits while a batch is
\* active on the endpoint.
CanActivate_always(e) == TRUE

CanActivate(e) == active_batch[e] = 0

\* Lines 340-352: the doorbell is rung unless the handler returned an error.
RingsDoorbell_always(err) == TRUE

RingsDoorbell(err) == err = "EOK"

\* The batch is not in a call and not waiting for its completion.
BatchFree(b) ==
    /\ spc[b] = "idle"
    /\ sret[b] = "EOK" => berr[b] # "none"

\* Lines 300-334: the online check, the check of the ring, the buffer.
ScheduleBegin(b, e) ==
    /\ DevLive
    /\ n_ops < MaxOps
    /\ BatchFree(b)
    /\ Registered(e)
    /\ sep' = [sep EXCEPT ![b] = e]
    /\ s_online' = [s_online EXCEPT ![b] = online]
    /\ berr' = [berr EXCEPT ![b] = "none"]
    /\ doorbells' = [doorbells EXCEPT ![b] = <<>>]
    /\ enqueued' = enqueued \ {b}
    /\ \E allocated \in BOOLEAN :
          LET r == IF OfflineRefused(e) THEN "EAGAIN"
                   ELSE IF ~ring_allocated[e] THEN "EINVAL"
                   ELSE IF ~allocated THEN "ENOMEM"
                   ELSE "none"
          IN /\ sret' = [sret EXCEPT ![b] = r]
             /\ spc' = [spc EXCEPT ![b] = IF r = "none" THEN "activate" ELSE "idle"]
             /\ OpDone("schedule", e, r)
    /\ UNCHANGED <<online, endpoints, active_endpoint_count, ring_allocated,
                   active_batch, ep_tds, db, xevq, dpc, d0_active, aborted>>
    /\ UNCHANGED went_offline /\ hc_cmd' = NoCommand
    /\ UNCHANGED <<trVars, erVars, enumVars, tdVars, rtVars, adVars, gdVars>>

\* Lines 336-348, under the endpoint's guard: the endpoint is activated,
\* the handler of the transfer type builds the TD and enqueues it; on an
\* error the endpoint is deactivated and the error returned.
ScheduleEnqueue(b) ==
    /\ spc[b] = "activate"
    /\ CanActivate(sep[b])
    /\ \E err \in {"EOK", "ERR"} :
          /\ IF err = "EOK"
             THEN /\ active_batch' = [active_batch EXCEPT ![sep[b]] = b]
                  /\ ep_tds' = [ep_tds EXCEPT ![sep[b]] = Append(@, b)]
                  /\ enqueued' = enqueued \cup {b}
             ELSE /\ active_batch' = [active_batch EXCEPT ![sep[b]] = 0]
                  /\ UNCHANGED <<ep_tds, enqueued>>
          /\ IF RingsDoorbell(err)
             THEN /\ spc' = [spc EXCEPT ![b] = "doorbell"]
                  /\ UNCHANGED sret
             ELSE /\ spc' = [spc EXCEPT ![b] = "idle"]
                  /\ sret' = [sret EXCEPT ![b] = err]
    /\ UNCHANGED <<online, endpoints, active_endpoint_count, ring_allocated,
                   db, doorbells, xevq, sep, s_online, berr, dpc, d0_active,
                   aborted, n_ops, op_ret>>
    /\ UNCHANGED went_offline /\ hc_cmd' = NoCommand
    /\ UNCHANGED <<trVars, erVars, enumVars, tdVars, rtVars, adVars, gdVars>>

\* Lines 350-352: hc_ring_doorbell with the slot id of the device and the
\* endpoint's index + 1; its result is the result of the call.
ScheduleDoorbell(b) ==
    /\ spc[b] = "doorbell"
    /\ doorbells' = [doorbells EXCEPT ![b] =
                        Append(@, <<devs[Dev].slot_id,
                                    xhci_endpoint_index(sep[b]) + 1>>)]
    /\ db' = [db EXCEPT ![sep[b]] = TRUE]
    /\ spc' = [spc EXCEPT ![b] = "idle"]
    /\ sret' = [sret EXCEPT ![b] = "EOK"]
    /\ UNCHANGED <<online, endpoints, active_endpoint_count, ring_allocated,
                   active_batch, ep_tds, enqueued, xevq, sep, s_online, berr,
                   dpc, d0_active, aborted, n_ops, op_ret>>
    /\ UNCHANGED went_offline /\ hc_cmd' = NoCommand
    /\ UNCHANGED <<trVars, erVars, enumVars, tdVars, rtVars, adVars, gdVars>>

(***************************************************************************)
(* The controller and the transfer events                                  *)
(***************************************************************************)
\* The controller runs the ring of an endpoint whose doorbell was rung, as
\* long as the slot is enabled: it executes the first TD and posts a
\* Transfer Event with the slot id, the DCI and a completion code.
HCExecute(e) ==
    /\ db[e]
    /\ ep_tds[e] # <<>>
    /\ devs[Dev].slot_id \in Slots /\ slot_enabled[devs[Dev].slot_id]
    /\ Len(xevq) < MaxXevq
    /\ \E code \in {"SUCCESS", "ERROR"} :
          xevq' = Append(xevq, [slot_id |-> devs[Dev].slot_id,
                                ep_dci |-> xhci_endpoint_dci(e),
                                code |-> code])
    /\ ep_tds' = [ep_tds EXCEPT ![e] = Tail(@)]
    /\ db' = [db EXCEPT ![e] = Len(ep_tds[e]) > 1]
    /\ UNCHANGED <<online, endpoints, active_endpoint_count, ring_allocated,
                   active_batch, doorbells, enqueued, spc, sep, sret,
                   s_online, berr, dpc, d0_active, aborted, n_ops, op_ret>>
    /\ UNCHANGED went_offline /\ hc_cmd' = NoCommand
    /\ UNCHANGED <<trVars, erVars, enumVars, tdVars, rtVars, adVars, gdVars>>

\* transfers.c 243-289: the device is looked up by the slot id and the
\* endpoint by dci / 2; under the endpoint's guard the active batch gets
\* its error, the endpoint is deactivated and the batch finished.
HandleTransferEvent ==
    /\ xevq # <<>>
    /\ xevq' = Tail(xevq)
    /\ LET ev == Head(xevq)
           ep == IF devices_by_slot[ev.slot_id] = 0 THEN 0
                 ELSE endpoints[ev.ep_dci \div 2]
           batch == IF ep = 0 THEN 0 ELSE active_batch[ep]
       IN IF batch = 0
          THEN UNCHANGED <<active_batch, berr>>
          ELSE /\ berr' = [berr EXCEPT ![batch] =
                              IF ev.code = "SUCCESS" THEN "EOK" ELSE "ENAK"]
               /\ active_batch' = [active_batch EXCEPT ![ep] = 0]
    /\ UNCHANGED <<online, endpoints, active_endpoint_count, ring_allocated,
                   ep_tds, db, doorbells, enqueued, spc, sep, sret, s_online,
                   dpc, d0_active, aborted, n_ops, op_ret>>
    /\ UNCHANGED went_offline /\ hc_cmd' = NoCommand
    /\ UNCHANGED <<trVars, erVars, enumVars, tdVars, rtVars, adVars, gdVars>>

(***************************************************************************)
(* Disconnect: handle_disconnected_device in two steps                     *)
(***************************************************************************)
\* The endpoints of the device the abort loop finds active.
ActiveEndpoints == {e \in EndpointsAt(EpNums) : active_batch[e] # 0}

\* The endpoints with a batch that was scheduled (the call has returned
\* EOK) and is still active.
InFlight ==
    {e \in ActiveEndpoints :
        spc[active_batch[e]] = "idle" /\ sret[active_batch[e]] = "EOK"}

\* xhci_transfer_abort on the endpoints of the set: Stop Endpoint; when the
\* command succeeds the controller gives up the TD on the ring and posts a
\* Transfer Event with the code Stopped for it.
RECURSIVE StoppedEvents(_)
StoppedEvents(S) ==
    IF S = {} THEN <<>>
    ELSE LET e == CHOOSE x \in S : \A y \in S : x <= y
         IN <<[slot_id |-> devs[Dev].slot_id,
               ep_dci |-> xhci_endpoint_dci(e), code |-> "STOPPED"]>>
            \o StoppedEvents(S \ {e})

xhci_transfer_abort(S, stopped) ==
    /\ aborted' = aborted \cup S
    /\ IF stopped
       THEN /\ xevq' = xevq \o StoppedEvents({e \in S : ep_tds[e] # <<>>})
            /\ ep_tds' = [e \in Eps |-> IF e \in S THEN <<>> ELSE ep_tds[e]]
            /\ db' = [e \in Eps |-> db[e] /\ e \notin S]
       ELSE UNCHANGED <<xevq, ep_tds, db>>

\* rh.c 181-222: the device saved by the port goes offline and leaves
\* rh->devices; the transfers of its active endpoints are aborted (a
\* failure is only logged).
DetachDevice ==
    /\ dpc = "none"
    /\ DevLive
    /\ devices_by_port[DevPort] = Dev
    /\ online' = FALSE
    /\ went_offline' = TRUE
    /\ devices_by_port' = [devices_by_port EXCEPT ![DevPort] = 0]
    /\ d0_active' = {<<e, active_batch[e]>> : e \in InFlight}
    /\ \E stopped \in BOOLEAN : xhci_transfer_abort(ActiveEndpoints, stopped)
    /\ dpc' = "detached"
    /\ UNCHANGED <<endpoints, active_endpoint_count, ring_allocated,
                   active_batch, doorbells, enqueued, spc, sep, sret,
                   s_online, berr, n_ops, op_ret>>
    /\ hc_cmd' = NoCommand
    /\ UNCHANGED <<hwVars, devs, devices_by_slot, bus_guard, rhVars>>
    /\ UNCHANGED <<trVars, erVars, tdVars, rtVars, adVars, gdVars>>

\* rh.c 224-266 with bus.c 185-247: EP0 is unregistered and the device
\* removed from the bus: offline, the active transfers aborted, every
\* endpoint left unregistered, the slot disabled, the DCBAA entry and
\* devices_by_slot cleared, the device node destroyed. Line 254 then reads
\* slot_id from the destroyed node and disables that slot: any slot id, or
\* none.
xhci_bus_remove_device ==
    /\ dpc = "detached"
    /\ LET s == devs[Dev].slot_id
           d == RemoveEndpoints(DevEndpoints, EndpointsAt(EpNums))
       IN /\ online' = FALSE
          /\ went_offline' = TRUE
          /\ \E stopped \in BOOLEAN :
                xhci_transfer_abort(ActiveEndpoints \ EndpointsAt({0}), stopped)
          /\ endpoints' = d.endpoints
          /\ active_endpoint_count' = d.count
          /\ devs' = [devs EXCEPT ![Dev] =
                         [@ EXCEPT !.state = "destroyed", !.endpoints0 = FALSE]]
          /\ dcbaa' = [dcbaa EXCEPT ![s] = 0]
          /\ devices_by_slot' = [devices_by_slot EXCEPT ![s] = 0]
          /\ \E stale \in 0..MaxSlots :
                /\ slot_enabled' =
                      hc_disable_slot(hc_disable_slot(slot_enabled, s), stale)
                /\ slot_addressed' =
                      hc_disable_slot(hc_disable_slot(slot_addressed, s), stale)
    /\ dpc' = "returned"
    /\ UNCHANGED <<ring_allocated, active_batch, doorbells, enqueued, spc,
                   sep, sret, s_online, berr, d0_active, n_ops, op_ret>>
    /\ hc_cmd' = NoCommand
    /\ UNCHANGED <<portsc, n_hw, devices_by_port, bus_guard, rhVars>>
    /\ UNCHANGED <<trVars, erVars, tdVars, rtVars, adVars, gdVars>>

NextXfer ==
    \/ online_device
    \/ offline_device
    \/ \E e \in Eps : register_endpoint(e)
    \/ \E e \in Eps : unregister_endpoint(e)
    \/ \E b \in Batches, e \in Eps : ScheduleBegin(b, e)
    \/ \E b \in Batches : ScheduleEnqueue(b)
    \/ \E b \in Batches : ScheduleDoorbell(b)
    \/ \E e \in Eps : HCExecute(e)
    \/ HandleTransferEvent
    \/ DetachDevice
    \/ xhci_bus_remove_device

(***************************************************************************)
(* One transfer from xhci_transfer_schedule to its Transfer Event          *)
(* (transfers.c): the TRBs of the TD, the command of schedule_control, the *)
(* completion.                                                             *)
(***************************************************************************)
\* stage_dir_flag_t and data_stage_type_t.
STAGE_OUT == 0
STAGE_IN == 1
DATA_STAGE_NO == 0
DATA_STAGE_OUT == 2
DATA_STAGE_IN == 3

REQUEST_TYPE_DTD == 128
REQUEST_TYPE_IS_DEVICE_TO_HOST(rq) == (rq \div REQUEST_TYPE_DTD) % 2 = 1

\* usb/request.h: the type of a request is in bits 6..5 of bmRequestType;
\* the standard requests Set-Configuration and Set-Interface.
SETUP_REQUEST_TYPE_GET_TYPE(rt) == (rt \div 32) % 4
USB_REQUEST_TYPE_STANDARD == 0
USB_DEVREQ_SET_CONFIGURATION == 9
USB_DEVREQ_SET_INTERFACE == 11

\* The values of bmRequestType tried: standard requests to the device and
\* to an interface, host-to-device and device-to-host, and class requests
\* in both directions.
RequestTypes == {0, 1, 33, 128, 161}
\* The values of bRequest tried: Get-Descriptor, Set-Configuration,
\* Get-Interface and Set-Interface.
Requests == {6, USB_DEVREQ_SET_CONFIGURATION, 10, USB_DEVREQ_SET_INTERFACE}

Sizes == 0..MaxSize
\* size_t, and the TRB Transfer Length field of a Transfer Event.
SizeMod == 2 ^ SizeBits
Residuals == 0..(2 ^ LengthBits - 1)

TransferTypes == {"CONTROL", "ISOCHRONOUS", "BULK", "INTERRUPT"}
\* Completion codes of a Transfer Event.
CompletionCodes == {"SUCCESS", "STALL_ERROR", "USB_TRANSACTION_ERROR"}

NoSetup == [request_type |-> 0, request |-> 0, length |-> 0]

\* xhci_trb_clean.
CleanTrb ==
    [type |-> "NONE", setup |-> NoSetup, buffer |-> FALSE, xfer_len |-> 0,
     td_size |-> 0, idt |-> 0, trt |-> 0, dir |-> 0, ioc |-> 0]

get_status_direction_flag_in(bmRequestType, wLength) == STAGE_IN

get_status_direction_flag(bmRequestType, wLength) ==
    IF REQUEST_TYPE_IS_DEVICE_TO_HOST(bmRequestType) /\ wLength > 0
    THEN STAGE_OUT
    ELSE STAGE_IN

get_transfer_type(bmRequestType, wLength) ==
    IF wLength = 0 THEN DATA_STAGE_NO
    ELSE IF REQUEST_TYPE_IS_DEVICE_TO_HOST(bmRequestType) THEN DATA_STAGE_IN
    ELSE DATA_STAGE_NO

configure_endpoint_needed_never(setup) == FALSE

configure_endpoint_needed(setup) ==
    /\ SETUP_REQUEST_TYPE_GET_TYPE(setup.request_type) = USB_REQUEST_TYPE_STANDARD
    /\ \/ setup.request = USB_DEVREQ_SET_CONFIGURATION
       \/ setup.request = USB_DEVREQ_SET_INTERFACE

\* schedule_control, lines 132-181: the TRBs of the TD.
trb_setup(setup) ==
    [CleanTrb EXCEPT !.setup = setup, !.xfer_len = 8, !.idt = 1,
                     !.type = "SETUP_STAGE",
                     !.trt = get_transfer_type(setup.request_type, setup.length)]

trb_data(setup, buffer_size) ==
    [CleanTrb EXCEPT !.buffer = TRUE, !.xfer_len = buffer_size, !.td_size = 1,
                     !.type = "DATA_STAGE",
                     !.dir = IF REQUEST_TYPE_IS_DEVICE_TO_HOST(setup.request_type)
                             THEN STAGE_IN ELSE STAGE_OUT]

trb_status(setup) ==
    [CleanTrb EXCEPT !.ioc = 1, !.type = "STATUS_STAGE",
                     !.dir = get_status_direction_flag(setup.request_type,
                                                       setup.length)]

schedule_control(setup, buffer_size) ==
    <<trb_setup(setup)>>
       \o (IF setup.length > 0 THEN <<trb_data(setup, buffer_size)>> ELSE <<>>)
       \o <<trb_status(setup)>>

\* schedule_bulk and schedule_interrupt: one Normal TRB.
schedule_bulk(buffer_size) ==
    <<[CleanTrb EXCEPT !.buffer = TRUE, !.xfer_len = buffer_size,
                       !.td_size = 1, !.ioc = 1, !.type = "NORMAL"]>>

\* Line 273 and line 274, the latter in size_t.
BatchError(code) == IF code = "SUCCESS" THEN "EOK" ELSE "ENAK"
TransferedSize(buffer_size, length) == (buffer_size - length) % SizeMod

\* No transfer: the state of the other specifications.
InitTd ==
    /\ xfer = [type |-> "CONTROL", dir |-> "OUT", setup |-> NoSetup,
               buffer_size |-> 0]
    /\ xpc = "none"
    /\ trbs = <<>>
    /\ xring = <<>>
    /\ xlog = <<>>
    /\ xret = "none"
    /\ xactive = FALSE
    /\ xev = [slot_id |-> 0, ep_dci |-> 0, addr |-> 0, code |-> "none",
              length |-> 0]
    /\ xev_ret = "none"
    /\ xdequeue = [n \in 0..1 |-> 0]
    /\ n_other = 0
    /\ batch_error = "none"
    /\ transfered_size = 0

\* A batch for an endpoint of an online device whose ring is allocated and
\* empty: a control transfer with its setup packet, or a transfer of
\* another type.
InitBatch ==
    /\ xfer \in [type : TransferTypes, dir : {"IN", "OUT"},
                 setup : [request_type : RequestTypes, request : Requests,
                          length : Sizes],
                 buffer_size : Sizes]
    /\ xfer.type # "CONTROL" => xfer.setup = NoSetup
    /\ xpc = "idle"
    /\ trbs = <<>>
    /\ xring = <<>>
    /\ xlog = <<>>
    /\ xret = "none"
    /\ xactive = FALSE
    /\ xev = [slot_id |-> 0, ep_dci |-> 0, addr |-> 0, code |-> "none",
              length |-> 0]
    /\ xev_ret = "none"
    /\ xdequeue = [n \in 0..1 |-> 0]
    /\ n_other = 0
    /\ batch_error = "none"
    /\ transfered_size = 0

\* The call returns err before the doorbell: lines 326-329, or lines
\* 340-344 with the endpoint deactivated.
TdReturn(err) ==
    /\ xret' = err
    /\ xactive' = FALSE
    /\ xpc' = "returned"

\* xhci_transfer_schedule, lines 300-337: the checks pass, the buffer is
\* allocated when the batch has one, the endpoint is activated.
TdSchedule ==
    /\ xpc = "idle"
    /\ \E allocated \in BOOLEAN :
          IF xfer.buffer_size > 0 /\ ~allocated
          THEN TdReturn("ENOMEM")
          ELSE xactive' = TRUE /\ xpc' = "handler" /\ UNCHANGED xret
    /\ UNCHANGED <<xfer, trbs, xring, xlog, xev, xev_ret, xdequeue,
                   n_other, batch_error, transfered_size>>
    /\ UNCHANGED <<trVars, erVars, enumVars, epVars, rtVars, adVars, gdVars>>

\* Line 338, the handler of the transfer type up to its command or its
\* enqueue: the TRBs are built.
TdBuild ==
    /\ xpc = "handler"
    /\ IF xfer.type = "ISOCHRONOUS"
       THEN TdReturn("ENOTSUP") /\ UNCHANGED trbs
       ELSE /\ trbs' = IF xfer.type = "CONTROL"
                       THEN schedule_control(xfer.setup, xfer.buffer_size)
                       ELSE schedule_bulk(xfer.buffer_size)
            /\ xpc' = IF xfer.type = "CONTROL" /\ configure_endpoint_needed(xfer.setup)
                      THEN "configure"
                      ELSE "enqueue"
            /\ UNCHANGED <<xret, xactive>>
    /\ UNCHANGED <<xfer, xring, xlog, xev, xev_ret, xdequeue,
                   n_other, batch_error, transfered_size>>
    /\ UNCHANGED <<trVars, erVars, enumVars, epVars, rtVars, adVars, gdVars>>

\* schedule_control, lines 184-189: hc_configure_device gives the Configure
\* Endpoint command and returns when it has completed; its error is the
\* result of the call.
TdConfigure ==
    /\ xpc = "configure"
    /\ \E err \in {"EOK", "ERR"} :
          /\ xlog' = Append(xlog, [op |-> "configure", ret |-> err])
          /\ IF err # "EOK"
             THEN TdReturn(err)
             ELSE xpc' = "enqueue" /\ UNCHANGED <<xret, xactive>>
    /\ UNCHANGED <<xfer, trbs, xring, xev, xev_ret, xdequeue,
                   n_other, batch_error, transfered_size>>
    /\ UNCHANGED <<trVars, erVars, enumVars, epVars, rtVars, adVars, gdVars>>

\* xhci_trb_ring_enqueue_multiple or xhci_trb_ring_enqueue: the whole TD is
\* put on the ring, or nothing and an error is the result of the call.
TdEnqueue ==
    /\ xpc = "enqueue"
    /\ \E err \in {"EOK", "EAGAIN"} :
          /\ xlog' = Append(xlog, [op |-> "enqueue", ret |-> err])
          /\ IF err # "EOK"
             THEN TdReturn(err) /\ UNCHANGED xring
             ELSE /\ xring' = trbs
                  /\ xpc' = "doorbell"
                  /\ UNCHANGED <<xret, xactive>>
    /\ UNCHANGED <<xfer, trbs, xev, xev_ret, xdequeue,
                   n_other, batch_error, transfered_size>>
    /\ UNCHANGED <<trVars, erVars, enumVars, epVars, rtVars, adVars, gdVars>>

\* Lines 350-352: the doorbell.
TdDoorbell ==
    /\ xpc = "doorbell"
    /\ xlog' = Append(xlog, [op |-> "doorbell", ret |-> "EOK"])
    /\ xret' = "EOK"
    /\ xpc' = "scheduled"
    /\ UNCHANGED <<xfer, trbs, xring, xactive, xev, xev_ret, xdequeue,
                   n_other, batch_error, transfered_size>>
    /\ UNCHANGED <<trVars, erVars, enumVars, epVars, rtVars, adVars, gdVars>>

\* The device of the transfer has slot 1, the only slot with a device; it
\* has endpoint 0 and the endpoint of the batch: endpoint 0 for a control
\* transfer, endpoint 1 otherwise.
OwnSlot == 1
EventSlots == {OwnSlot, OwnSlot + 1}
OwnNumber == IF xfer.type = "CONTROL" THEN 0 ELSE 1
OwnDci == 2 * OwnNumber + (IF xfer.type = "CONTROL" \/ xfer.dir = "IN" THEN 1 ELSE 0)
EventDcis == 1..4

\* hc->bus.devices_by_slot[slot_id] is not NULL.
DeviceBySlot_any(slot_id) == TRUE

DeviceBySlot(slot_id) == slot_id = OwnSlot

\* xhci_device_get_endpoint(dev, ep_num) is not NULL.
DeviceHasEndpoint(ep_num) == ep_num \in {0, OwnNumber}

\* ep->base.active_batch is not NULL.
EndpointHasBatch(ep_num) == ep_num = OwnNumber /\ xactive

\* The controller executes the TD and posts its Transfer Event: the address
\* of the TD's last TRB, a completion code and the number of bytes not
\* transferred.
TdComplete ==
    /\ xpc = "scheduled"
    /\ xev_ret # "pending"
    /\ \E code \in CompletionCodes, length \in Residuals :
          xev' = [slot_id |-> OwnSlot, ep_dci |-> OwnDci, addr |-> Len(xring),
                  code |-> code, length |-> length]
    /\ xev_ret' = "pending"
    /\ UNCHANGED <<xfer, xpc, trbs, xring, xlog, xret, xactive, xdequeue,
                   n_other, batch_error, transfered_size>>
    /\ UNCHANGED <<trVars, erVars, enumVars, epVars, rtVars, adVars, gdVars>>

\* A Transfer Event that is not the completion of an active batch: it names
\* a slot without device, an endpoint the device does not have, or an
\* endpoint without active batch (endpoint 0 during a transfer on endpoint
\* 1, or the endpoint of the batch once the batch is finished); its
\* address is that of the TRB after the TD.
TdOtherEvent ==
    /\ xpc \in {"scheduled", "finished"}
    /\ xev_ret # "pending"
    /\ n_other < MaxOther
    /\ n_other' = n_other + 1
    /\ \E slot_id \in EventSlots, ep_dci \in EventDcis :
          /\ ~(slot_id = OwnSlot /\ ep_dci \div 2 = OwnNumber /\ xactive)
          /\ xev' = [slot_id |-> slot_id, ep_dci |-> ep_dci,
                     addr |-> Len(xring) + 1,
                     code |-> "SUCCESS", length |-> 0]
    /\ xev_ret' = "pending"
    /\ UNCHANGED <<xfer, xpc, trbs, xring, xlog, xret, xactive, xdequeue,
                   batch_error, transfered_size>>
    /\ UNCHANGED <<trVars, erVars, enumVars, epVars, rtVars, adVars, gdVars>>

\* xhci_handle_transfer_event, lines 243-289: the device is looked up by
\* the slot id and the endpoint by dci / 2, each miss returns ENOENT; the
\* dequeue pointer of the endpoint's ring is set to the event's address;
\* without active batch ENOENT is returned; else error and transferred size
\* are set and the endpoint deactivated, for an IN batch the assertion of
\* line 283 comes before the copy, and the batch is finished.
TdEvent ==
    /\ xev_ret = "pending"
    /\ LET ep_num == xev.ep_dci \div 2 IN
       IF ~DeviceBySlot(xev.slot_id) \/ ~DeviceHasEndpoint(ep_num)
       THEN /\ xev_ret' = "ENOENT"
            /\ UNCHANGED <<xdequeue, xactive, xpc, batch_error, transfered_size>>
       ELSE /\ xdequeue' = [xdequeue EXCEPT ![ep_num] = xev.addr]
            /\ IF ~EndpointHasBatch(ep_num)
               THEN /\ xev_ret' = "ENOENT"
                    /\ UNCHANGED <<xactive, xpc, batch_error, transfered_size>>
               ELSE /\ batch_error' = BatchError(xev.code)
                    /\ transfered_size' =
                          TransferedSize(xfer.buffer_size, xev.length)
                    /\ xactive' = FALSE
                    /\ IF xfer.dir = "IN" /\ transfered_size' > xfer.buffer_size
                       THEN xpc' = "assert" /\ xev_ret' = "assert"
                       ELSE xpc' = "finished" /\ xev_ret' = "EOK"
    /\ UNCHANGED <<xfer, trbs, xring, xlog, xret, xev, n_other>>
    /\ UNCHANGED <<trVars, erVars, enumVars, epVars, rtVars, adVars, gdVars>>

NextTd ==
    \/ TdSchedule
    \/ TdBuild
    \/ TdConfigure
    \/ TdEnqueue
    \/ TdDoorbell
    \/ TdComplete
    \/ TdOtherEvent
    \/ TdEvent

(***************************************************************************)
(* Tier, route string and root hub port of a device                        *)
(* (xhci_bus_enumerate_device, bus.c 144-154)                              *)
(***************************************************************************)
\* The ports a device can be attached to: 1..MaxHubPorts, and a port
\* number that does not fit into four bits.
HubPorts == (1..MaxHubPorts) \cup {MaxHubPorts + 16}

\* Bitwise or and and of two naturals, left shift.
RECURSIVE BitOr(_, _)
BitOr(a, b) ==
    IF a = 0 THEN b
    ELSE IF b = 0 THEN a
    ELSE (IF a % 2 = 1 \/ b % 2 = 1 THEN 1 ELSE 0)
            + 2 * BitOr(a \div 2, b \div 2)

RECURSIVE BitAnd(_, _)
BitAnd(a, b) ==
    IF a = 0 \/ b = 0 THEN 0
    ELSE (IF a % 2 = 1 /\ b % 2 = 1 THEN 1 ELSE 0)
            + 2 * BitAnd(a \div 2, b \div 2)

ShiftLeft(a, n) == a * 2 ^ n

\* The device node of the root hub (rh->device): tier 0, empty route
\* string.
RootHubDevice ==
    [hub |-> 0, port |-> 0, tier |-> 0, route_str |-> 0, rh_port |-> 0]

\* dev->hub of the device: the root hub is hub 0, the i-th enumerated
\* device is hub i.
HubDevice(h) == IF h = 0 THEN RootHubDevice ELSE nodes[h]

\* The device node as hcd_ddf_device_create and its caller hand it over:
\* zeroed, with dev->hub and dev->port set.
FreshNode(h, port) ==
    [hub |-> h, port |-> port, tier |-> 0, route_str |-> 0, rh_port |-> 0]

\* bus.c 144-154: tier, route string and root hub port of the device.
RouteOf(dev, xhci_hub) ==
    LET tier == xhci_hub.tier + 1
    IN IF tier >= 2
       THEN LET offset == 4 * (tier - 2)
            IN [dev EXCEPT
                   !.tier = tier,
                   !.route_str = BitOr(xhci_hub.route_str,
                                       ShiftLeft(BitAnd(dev.port, 15), offset)),
                   !.rh_port = xhci_hub.rh_port]
       ELSE [dev EXCEPT !.tier = tier, !.route_str = xhci_hub.route_str]

InitRoute == nodes = <<>>

\* A device is enumerated on a port of the root hub or of a device
\* enumerated before.
EnumerateBelow(h, port) ==
    /\ Len(nodes) < MaxNodes
    /\ nodes' = Append(nodes, RouteOf(FreshNode(h, port), HubDevice(h)))
    /\ UNCHANGED <<trVars, erVars, enumVars, epVars, tdVars, adVars, gdVars>>

NextRoute ==
    \E h \in 0..Len(nodes) : \E port \in HubPorts : EnumerateBelow(h, port)

(***************************************************************************)
(* The default address (request_address, release_address, bus.c 484-513)   *)
(***************************************************************************)
USB_ADDRESS_DEFAULT == 0

\* usb_speed_t; USB_SPEED_MAX is its last enumerator.
USB_SPEED_MAX == "USB_SPEED_MAX"
usb_speed_t ==
    {"USB_SPEED_LOW", "USB_SPEED_FULL", "USB_SPEED_HIGH", "USB_SPEED_SUPER",
     USB_SPEED_MAX}

\* The addresses tried: the default address and another one.
Addresses == {USB_ADDRESS_DEFAULT, USB_ADDRESS_DEFAULT + 1}

\* xhci_bus_init, line 567.
InitAddr ==
    /\ default_address_speed = USB_SPEED_MAX
    /\ held = FALSE
    /\ holders = 0
    /\ addr_ret = [op |-> "none", addr |-> 0, speed |-> USB_SPEED_MAX,
                   ret |-> "none"]
    /\ n_addr = 0

\* Line 496: the default address is taken.
AlreadyAllocated == default_address_speed # USB_SPEED_MAX

\* request_address, lines 484-502; a failed assertion stops the driver.
request_address(addr, strict, speed) ==
    /\ n_addr < MaxAddrOps
    /\ addr_ret.ret # "assert"
    /\ n_addr' = n_addr + 1
    /\ LET result(r) == addr_ret' = [op |-> "request", addr |-> addr,
                                      speed |-> speed, ret |-> r]
       IN IF addr # USB_ADDRESS_DEFAULT
          THEN /\ result("ENOTSUP")
               /\ UNCHANGED <<default_address_speed, held, holders>>
          ELSE IF ~strict
          THEN /\ result("assert")
               /\ UNCHANGED <<default_address_speed, held, holders>>
          ELSE IF AlreadyAllocated
          THEN /\ result("ENOENT")
               /\ UNCHANGED <<default_address_speed, held, holders>>
          ELSE /\ default_address_speed' = speed
               /\ held' = TRUE
               /\ holders' = holders + 1
               /\ result("EOK")
    /\ UNCHANGED <<trVars, erVars, enumVars, epVars, tdVars, rtVars, gdVars>>

\* release_address, lines 504-513.
release_address(addr) ==
    /\ n_addr < MaxAddrOps
    /\ addr_ret.ret # "assert"
    /\ n_addr' = n_addr + 1
    /\ IF addr # USB_ADDRESS_DEFAULT
       THEN /\ addr_ret' = [op |-> "release", addr |-> addr,
                            speed |-> USB_SPEED_MAX, ret |-> "ENOTSUP"]
            /\ UNCHANGED <<default_address_speed, held, holders>>
       ELSE /\ default_address_speed' = USB_SPEED_MAX
            /\ held' = FALSE
            /\ holders' = 0
            /\ addr_ret' = [op |-> "release", addr |-> addr,
                            speed |-> USB_SPEED_MAX, ret |-> "EOK"]
    /\ UNCHANGED <<trVars, erVars, enumVars, epVars, tdVars, rtVars, gdVars>>

NextAddr ==
    \/ \E addr \in Addresses : \E strict \in BOOLEAN : \E speed \in usb_speed_t :
          request_address(addr, strict, speed)
    \/ \E addr \in Addresses : release_address(addr)

(***************************************************************************)
(* Guards: the fibrils that share one endpoint and the device tables.      *)
(* A client fibril schedules transfers (transfers.c 336-352), the event    *)
(* dispatcher completes them (transfers.c 243-289), and the port monitor   *)
(* enumerates and removes the device (rh.c 91-141, 181-262, bus.c 156-168, *)
(* 185-247).  Each step is one access to shared state.                     *)
(***************************************************************************)
Fibrils == {"sched", "event", "monitor"}

Guards == {"ep", "bus", "rh"}

\* The guards that protect an object: ep->base.guard for the endpoint's
\* active transfer, the bus and root hub guards for the device tables.
GuardOf(obj) ==
    CASE obj = "active" -> {"ep"}
      [] obj = "dequeue" -> {"ep"}
      [] obj = "by_slot" -> {"bus", "rh"}
      [] obj = "by_port" -> {"bus", "rh"}
      [] OTHER -> {}

HoldsGuard(f, obj) == \E g \in GuardOf(obj) : owner[g] = f

NoAccess ==
    [fibril |-> "none", obj |-> "none", kind |-> "none", guarded |-> TRUE,
     ep_owner |-> "none", freed |-> FALSE]

\* An access of fibril f to obj; freed tells that the value read refers to
\* a destroyed device.
Access(f, obj, kind, freed) ==
    [fibril |-> f, obj |-> obj, kind |-> kind, guarded |-> HoldsGuard(f, obj),
     ep_owner |-> owner["ep"], freed |-> freed]

InitGuard ==
    /\ fpc = [f \in Fibrils |-> "idle"]
    /\ owner = [g \in Guards |-> "none"]
    /\ g_active = FALSE
    /\ g_node = 0
    /\ g_dev = 0
    /\ destroyed = {}
    /\ g_by_slot = 0
    /\ g_by_port = 0
    /\ g_td = FALSE
    /\ g_evdev = 0
    /\ acc = NoAccess
    /\ rounds = [f \in {"sched", "monitor"} |-> 0]

Goto(f, p) == fpc' = [fpc EXCEPT ![f] = p]

Lock(f, g) == owner[g] = "none" /\ owner' = [owner EXCEPT ![g] = f]

Unlock(g) == owner' = [owner EXCEPT ![g] = "none"]

\* xhci_transfer_schedule is called for an endpoint of an addressed device.
SchedBegin ==
    /\ fpc["sched"] = "idle"
    /\ g_by_slot # 0
    /\ rounds["sched"] < MaxRounds
    /\ rounds' = [rounds EXCEPT !["sched"] = @ + 1]
    /\ Goto("sched", "lock")
    /\ acc' = NoAccess
    /\ UNCHANGED <<owner, g_active, g_node, g_dev, destroyed, g_by_slot,
                   g_by_port, g_td, g_evdev>>
    /\ UNCHANGED <<trVars, erVars, enumVars, epVars, tdVars, rtVars, adVars>>

\* transfers.c, line 336.
SchedLock ==
    /\ fpc["sched"] = "lock"
    /\ Lock("sched", "ep")
    /\ Goto("sched", "activate")
    /\ acc' = NoAccess
    /\ UNCHANGED <<g_active, g_node, g_dev, destroyed, g_by_slot, g_by_port,
                   g_td, g_evdev, rounds>>
    /\ UNCHANGED <<trVars, erVars, enumVars, epVars, tdVars, rtVars, adVars>>

\* endpoint_activate_locked, line 337: waits, with the guard released,
\* while a batch is active; then marks the endpoint active.
SchedActivate ==
    /\ fpc["sched"] = "activate"
    /\ IF g_active
       THEN /\ acc' = Access("sched", "active", "read", FALSE)
            /\ Unlock("ep")
            /\ Goto("sched", "lock")
            /\ UNCHANGED g_active
       ELSE /\ acc' = Access("sched", "active", "write", FALSE)
            /\ g_active' = TRUE
            /\ Goto("sched", "handler")
            /\ UNCHANGED owner
    /\ UNCHANGED <<g_node, g_dev, destroyed, g_by_slot, g_by_port, g_td,
                   g_evdev, rounds>>
    /\ UNCHANGED <<trVars, erVars, enumVars, epVars, tdVars, rtVars, adVars>>

\* The transfer handler, line 338, enqueues the TD (xhci_trb_ring_enqueue
\* reads ring->dequeue, trb_ring.c line 192); on an error the endpoint is
\* deactivated, line 341.
SchedHandler ==
    /\ fpc["sched"] = "handler"
    /\ \E err \in {"EOK", "ERR"} :
          IF err = "EOK"
          THEN /\ acc' = Access("sched", "dequeue", "read", FALSE)
               /\ Goto("sched", "unlock")
               /\ UNCHANGED g_active
          ELSE /\ acc' = Access("sched", "active", "write", FALSE)
               /\ g_active' = FALSE
               /\ Goto("sched", "unlock_err")
    /\ UNCHANGED <<owner, g_node, g_dev, destroyed, g_by_slot, g_by_port,
                   g_td, g_evdev, rounds>>
    /\ UNCHANGED <<trVars, erVars, enumVars, epVars, tdVars, rtVars, adVars>>

\* Lines 342-343 and 348.
SchedUnlock ==
    /\ fpc["sched"] \in {"unlock", "unlock_err"}
    /\ Unlock("ep")
    /\ Goto("sched", IF fpc["sched"] = "unlock" THEN "doorbell" ELSE "idle")
    /\ acc' = NoAccess
    /\ UNCHANGED <<g_active, g_node, g_dev, destroyed, g_by_slot, g_by_port,
                   g_td, g_evdev, rounds>>
    /\ UNCHANGED <<trVars, erVars, enumVars, epVars, tdVars, rtVars, adVars>>

\* hc_ring_doorbell, line 352: the controller runs the TD.
SchedDoorbell ==
    /\ fpc["sched"] = "doorbell"
    /\ g_td' = TRUE
    /\ Goto("sched", "idle")
    /\ acc' = NoAccess
    /\ UNCHANGED <<owner, g_active, g_node, g_dev, destroyed, g_by_slot,
                   g_by_port, g_evdev, rounds>>
    /\ UNCHANGED <<trVars, erVars, enumVars, epVars, tdVars, rtVars, adVars>>

\* A Transfer Event for the TD reaches xhci_handle_transfer_event.
EventBegin ==
    /\ fpc["event"] = "idle"
    /\ g_td
    /\ g_td' = FALSE
    /\ Goto("event", "lookup")
    /\ acc' = NoAccess
    /\ UNCHANGED <<owner, g_active, g_node, g_dev, destroyed, g_by_slot,
                   g_by_port, g_evdev, rounds>>
    /\ UNCHANGED <<trVars, erVars, enumVars, epVars, tdVars, rtVars, adVars>>

\* transfers.c, lines 249-253.
EventLookup ==
    /\ fpc["event"] = "lookup"
    /\ acc' = Access("event", "by_slot", "read", g_by_slot \in destroyed)
    /\ g_evdev' = g_by_slot
    /\ Goto("event", IF g_by_slot = 0 THEN "idle" ELSE "endpoint")
    /\ UNCHANGED <<owner, g_active, g_node, g_dev, destroyed, g_by_slot,
                   g_by_port, g_td, rounds>>
    /\ UNCHANGED <<trVars, erVars, enumVars, epVars, tdVars, rtVars, adVars>>

\* xhci_device_get_endpoint, lines 255-261, reads dev->endpoints; what it
\* finds in a destroyed device is arbitrary.
EventEndpoint ==
    /\ fpc["event"] = "endpoint"
    /\ acc' = Access("event", "device", "read", g_evdev \in destroyed)
    /\ \E found \in BOOLEAN :
          /\ g_evdev \notin destroyed => found
          /\ Goto("event", IF found THEN "dequeue" ELSE "idle")
    /\ UNCHANGED <<owner, g_active, g_node, g_dev, destroyed, g_by_slot,
                   g_by_port, g_td, g_evdev, rounds>>
    /\ UNCHANGED <<trVars, erVars, enumVars, epVars, tdVars, rtVars, adVars>>

\* Line 264.
EventDequeue ==
    /\ fpc["event"] = "dequeue"
    /\ acc' = Access("event", "dequeue", "write", g_evdev \in destroyed)
    /\ Goto("event", "evlock")
    /\ UNCHANGED <<owner, g_active, g_node, g_dev, destroyed, g_by_slot,
                   g_by_port, g_td, g_evdev, rounds>>
    /\ UNCHANGED <<trVars, erVars, enumVars, epVars, tdVars, rtVars, adVars>>

\* Line 266.
EventLock ==
    /\ fpc["event"] = "evlock"
    /\ Lock("event", "ep")
    /\ Goto("event", "batch")
    /\ acc' = NoAccess
    /\ UNCHANGED <<g_active, g_node, g_dev, destroyed, g_by_slot, g_by_port,
                   g_td, g_evdev, rounds>>
    /\ UNCHANGED <<trVars, erVars, enumVars, epVars, tdVars, rtVars, adVars>>

\* Lines 267-277: without an active batch only the read happens.
EventBatch ==
    /\ fpc["event"] = "batch"
    /\ acc' = Access("event", "active", IF g_active THEN "write" ELSE "read",
                     g_evdev \in destroyed)
    /\ g_active' = FALSE
    /\ Unlock("ep")
    /\ Goto("event", "idle")
    /\ UNCHANGED <<g_node, g_dev, destroyed, g_by_slot, g_by_port, g_td,
                   g_evdev, rounds>>
    /\ UNCHANGED <<trVars, erVars, enumVars, epVars, tdVars, rtVars, adVars>>

\* rh_setup_device, rh.c lines 99-114, for a port without a device.
MonSetup ==
    /\ fpc["monitor"] = "idle"
    /\ g_by_port = 0
    /\ g_by_slot = 0
    /\ rounds["monitor"] < MaxRounds
    /\ rounds' = [rounds EXCEPT !["monitor"] = @ + 1]
    /\ g_node' = g_node + 1
    /\ g_dev' = g_node + 1
    /\ Goto("monitor", "m_lock")
    /\ acc' = NoAccess
    /\ UNCHANGED <<owner, g_active, destroyed, g_by_slot, g_by_port, g_td,
                   g_evdev>>
    /\ UNCHANGED <<trVars, erVars, enumVars, epVars, tdVars, rtVars, adVars>>

\* xhci_bus_enumerate_device, bus.c line 156.
MonLockBus ==
    /\ fpc["monitor"] = "m_lock"
    /\ Lock("monitor", "bus")
    /\ Goto("monitor", "m_install")
    /\ acc' = NoAccess
    /\ UNCHANGED <<g_active, g_node, g_dev, destroyed, g_by_slot, g_by_port,
                   g_td, g_evdev, rounds>>
    /\ UNCHANGED <<trVars, erVars, enumVars, epVars, tdVars, rtVars, adVars>>

\* bus.c lines 157-168: a failed address_device returns at line 160 with
\* the guard held; otherwise the device is installed and the guard released.
MonInstall ==
    /\ fpc["monitor"] = "m_install"
    /\ \E err \in {"EOK", "ERR"} :
          IF err = "EOK"
          THEN /\ acc' = Access("monitor", "by_slot", "write", FALSE)
               /\ g_by_slot' = g_dev
               /\ Unlock("bus")
               /\ Goto("monitor", "m_bind")
          ELSE /\ acc' = NoAccess
               /\ Goto("monitor", "idle")
               /\ UNCHANGED <<g_by_slot, owner>>
    /\ UNCHANGED <<g_active, g_node, g_dev, destroyed, g_by_port, g_td,
                   g_evdev, rounds>>
    /\ UNCHANGED <<trVars, erVars, enumVars, epVars, tdVars, rtVars, adVars>>

\* ddf_fun_bind, rh.c lines 123-126 and 138-140: a failure destroys the
\* device.
MonBind ==
    /\ fpc["monitor"] = "m_bind"
    /\ \E err \in {"EOK", "ERR"} :
          IF err = "EOK"
          THEN /\ Goto("monitor", "m_lock_rh")
               /\ UNCHANGED destroyed
          ELSE /\ destroyed' = destroyed \cup {g_dev}
               /\ Goto("monitor", "idle")
    /\ acc' = NoAccess
    /\ UNCHANGED <<owner, g_active, g_node, g_dev, g_by_slot, g_by_port,
                   g_td, g_evdev, rounds>>
    /\ UNCHANGED <<trVars, erVars, enumVars, epVars, tdVars, rtVars, adVars>>

\* rh.c line 128.
MonLockRh ==
    /\ fpc["monitor"] = "m_lock_rh"
    /\ Lock("monitor", "rh")
    /\ Goto("monitor", "m_save")
    /\ acc' = NoAccess
    /\ UNCHANGED <<g_active, g_node, g_dev, destroyed, g_by_slot, g_by_port,
                   g_td, g_evdev, rounds>>
    /\ UNCHANGED <<trVars, erVars, enumVars, epVars, tdVars, rtVars, adVars>>

\* rh.c lines 130-134.
MonSave ==
    /\ fpc["monitor"] = "m_save"
    /\ acc' = Access("monitor", "by_port", "write", FALSE)
    /\ g_by_port' = IF g_by_port = 0 THEN g_dev ELSE g_by_port
    /\ Unlock("rh")
    /\ Goto("monitor", "idle")
    /\ UNCHANGED <<g_active, g_node, g_dev, destroyed, g_by_slot, g_td,
                   g_evdev, rounds>>
    /\ UNCHANGED <<trVars, erVars, enumVars, epVars, tdVars, rtVars, adVars>>

\* handle_disconnected_device, rh.c lines 187-191.
MonDisconnect ==
    /\ fpc["monitor"] = "idle"
    /\ g_by_port # 0
    /\ acc' = Access("monitor", "by_port", "read", g_by_port \in destroyed)
    /\ g_dev' = g_by_port
    /\ Goto("monitor", "d_clear")
    /\ UNCHANGED <<owner, g_active, g_node, destroyed, g_by_slot, g_by_port,
                   g_td, g_evdev, rounds>>
    /\ UNCHANGED <<trVars, erVars, enumVars, epVars, tdVars, rtVars, adVars>>

\* rh.c line 204, after the guard of lines 200-202 has been released.
MonClearPort ==
    /\ fpc["monitor"] = "d_clear"
    /\ acc' = Access("monitor", "by_port", "write", FALSE)
    /\ g_by_port' = 0
    /\ Goto("monitor", "d_abort")
    /\ UNCHANGED <<owner, g_active, g_node, g_dev, destroyed, g_by_slot,
                   g_td, g_evdev, rounds>>
    /\ UNCHANGED <<trVars, erVars, enumVars, epVars, tdVars, rtVars, adVars>>

\* rh.c line 210 reads ep->base.active; bus.c line 200 reads it again.
MonAbort ==
    /\ fpc["monitor"] \in {"d_abort", "r_abort"}
    /\ acc' = Access("monitor", "active", "read", FALSE)
    /\ Goto("monitor", IF fpc["monitor"] = "d_abort" THEN "r_abort"
                       ELSE "r_clear")
    /\ UNCHANGED <<owner, g_active, g_node, g_dev, destroyed, g_by_slot,
                   g_by_port, g_td, g_evdev, rounds>>
    /\ UNCHANGED <<trVars, erVars, enumVars, epVars, tdVars, rtVars, adVars>>

\* xhci_bus_remove_device, bus.c line 240.
MonClearSlot ==
    /\ fpc["monitor"] = "r_clear"
    /\ acc' = Access("monitor", "by_slot", "write", FALSE)
    /\ g_by_slot' = 0
    /\ Goto("monitor", "r_destroy")
    /\ UNCHANGED <<owner, g_active, g_node, g_dev, destroyed, g_by_port,
                   g_td, g_evdev, rounds>>
    /\ UNCHANGED <<trVars, erVars, enumVars, epVars, tdVars, rtVars, adVars>>

\* hcd_ddf_device_destroy, bus.c line 244.
MonDestroy ==
    /\ fpc["monitor"] = "r_destroy"
    /\ destroyed' = destroyed \cup {g_dev}
    /\ Goto("monitor", "idle")
    /\ acc' = NoAccess
    /\ UNCHANGED <<owner, g_active, g_node, g_dev, g_by_slot, g_by_port,
                   g_td, g_evdev, rounds>>
    /\ UNCHANGED <<trVars, erVars, enumVars, epVars, tdVars, rtVars, adVars>>

NextGuard ==
    \/ SchedBegin
    \/ SchedLock
    \/ SchedActivate
    \/ SchedHandler
    \/ SchedUnlock
    \/ SchedDoorbell
    \/ EventBegin
    \/ EventLookup
    \/ EventEndpoint
    \/ EventDequeue
    \/ EventLock
    \/ EventBatch
    \/ MonSetup
    \/ MonLockBus
    \/ MonInstall
    \/ MonBind
    \/ MonLockRh
    \/ MonSave
    \/ MonDisconnect
    \/ MonClearPort
    \/ MonAbort
    \/ MonClearSlot
    \/ MonDestroy

(***************************************************************************)
(* Specifications                                                          *)
(***************************************************************************)
Init ==
    /\ InitTransferRing /\ InitEventRing /\ InitBus /\ InitEp /\ InitTd
    /\ InitRoute /\ InitAddr /\ InitGuard

Next ==
    \/ \E len \in 1..MaxTD : EnqueueBegin(len)
    \/ DryStep
    \/ CopyStep
    \/ HCConsume
    \/ xhci_handle_transfer_event

Spec == Init /\ [][Next]_vars

NextEvent ==
    \/ xhci_event_ring_dequeue
    \/ HCProduce

SpecEvent == Init /\ [][NextEvent]_vars

SpecBus == Init /\ [][NextBus]_vars

InitXfer ==
    /\ InitTransferRing /\ InitEventRing /\ InitEnumerated /\ InitTd
    /\ InitRoute /\ InitAddr /\ InitGuard

SpecXfer == InitXfer /\ [][NextXfer]_vars

InitTransfer ==
    /\ InitTransferRing /\ InitEventRing /\ InitBus /\ InitEp /\ InitBatch
    /\ InitRoute /\ InitAddr /\ InitGuard

SpecTd == InitTransfer /\ [][NextTd]_vars

SpecRoute == Init /\ [][NextRoute]_vars

SpecAddr == Init /\ [][NextAddr]_vars

SpecGuard == Init /\ [][NextGuard]_vars

(***************************************************************************)
(* Properties of the transfer ring                                         *)
(***************************************************************************)
\* The slot that holds the k-th TRB of the last TD when the TD is stored
\* from the position the call started at.
TdSlot(k) == Adv(saved_enqueue_trb, k - 1)

\* The ring slot holds the TRB (the cycle bit is the ring's business).
Holds(slot, trb) ==
    /\ ring[slot].type = trb.type
    /\ ring[slot].parameter = trb.parameter
    /\ ring[slot].chain = trb.chain
    /\ ring[slot].ioc = trb.ioc

\* C1: xhci_trb_ring_enqueue is all-or-nothing: when it has returned EOK
\* every TRB of the TD is in the ring, and when it has returned EAGAIN the
\* enqueue segment, the enqueue TRB position, PCS and every TRB of the ring
\* are as they were when the call began.
C1_AllOrNothing ==
    /\ ret = "EOK" => \A k \in 1..Len(td) : Holds(TdSlot(k), td[k])
    /\ ret = "EAGAIN" =>
          /\ ring = ring0
          /\ pcs = pcs0
          /\ enqueue_trb = saved_enqueue_trb
          /\ enqueue_segment = saved_enqueue_segment
          /\ \A k \in 1..Len(td) : ~Holds(TdSlot(k), td[k])

\* A multi-TRB TD was refused after its dry run had advanced the pointer.
C1_Witness ==
    ret = "EAGAIN" /\ Len(td) >= 2 /\ d0 = 2 /\ ~deq_moved

\* The slots strictly between the dequeue address and position e, going
\* forward from dequeue: enqueued and not yet reported consumed. None when
\* dequeue is e itself (the ring is considered empty).
Between(addr, e) ==
    IF PhysTrb(addr) = e THEN {}
    ELSE {Adv(PhysTrb(addr), i) : i \in 1..(Dist(PhysTrb(addr), TrbPhys(1, e)) - 1)}

\* C2: no successful enqueue advances the enqueue pointer onto or past the
\* dequeue address: when a call returns EOK the enqueue position differs
\* from dequeue, and the copy loop never writes a slot lying between
\* dequeue and the position the call started at.
C2_NeverPastDequeue ==
    [][/\ (ret' = "EOK" /\ ret # "EOK") =>
            TrbPhys(enqueue_segment', enqueue_trb') # dequeue'
       /\ pc = "copy" =>
            enqueue_trb \notin Between(dequeue, saved_enqueue_trb)]_vars

\* C3: with d >= 2 the number of advances that bring the enqueue pointer
\* to the dequeue address (dequeue not written during the dry run), a TD
\* of exactly d TRBs is refused with EAGAIN and a TD of d-1 TRBs returns
\* EOK.
C3_FullBoundary ==
    (ret # "none" /\ ~deq_moved /\ d0 >= 2) =>
        /\ Len(td) = d0 => ret = "EAGAIN"
        /\ Len(td) = d0 - 1 => ret = "EOK"

C3_Witness ==
    ret = "EAGAIN" /\ ~deq_moved /\ d0 >= 2 /\ Len(td) = d0 /\ n_ok >= 1

\* Usable (non-Link) slots of the one-segment ring.
N == SEGMENT_TRB_COUNT - 1

\* Calls that had returned EOK before the last call.
OkBefore == IF ret = "EOK" THEN n_ok - 1 ELSE n_ok

\* The ring-wrap scenario: single-TRB TDs only, the last call has
\* returned, the events handled before it (none during it) are those of
\* the first ev0 TDs of the first lap.
C4_Scenario ==
    pc = "idle" /\ ret # "none" /\ all_single /\ ~deq_moved /\ ev0 <= N - 1

\* C4 as claimed: N-1 enqueues succeed before any event is handled, and
\* the events of TDs 1..k free exactly k more enqueues.
C4_RingWrapClaimed ==
    C4_Scenario => (ret = "EOK" <=> OkBefore < (N - 1) + ev0)

\* C4 (amended): N-1 enqueues succeed before any event is handled, and the
\* events of TDs 1..k (k >= 1) free exactly k-1 more enqueues, because
\* dequeue is the address of TD k itself.
C4_RingWrap ==
    C4_Scenario =>
        (ret = "EOK" <=> OkBefore < (N - 1) + (IF ev0 > 0 THEN ev0 - 1 ELSE 0))

\* The ring was filled, the event of TD 1 was handled, and the next
\* enqueue was refused all the same.
C4_Witness ==
    C4_Scenario /\ ev0 = 1 /\ ret = "EAGAIN" /\ n_ok = N - 1

\* C5: PCS (initially 1) is toggled exactly once each time the enqueue
\* pointer wraps from the last segment to the first: PCS has its initial
\* value iff the number of wraps is even.
C5_PcsParity == (pcs = 1) <=> (wraps % 2 = 0)

\* C6: the host controller never consumes a TRB of a TD while a later TRB
\* of that TD is still missing, and the TRBs of a TD that was enqueued
\* carry the PCS in force when the enqueue started.
C6_NoPartialTD ==
    /\ ~partial_seen
    /\ ret = "EOK" => \A k \in 1..Len(td) : ring[TdSlot(k)].cycle = pcs0

\* C7: a TD is stored in consecutive non-Link slots in TD order, also
\* across the Link TRB: the Link TRB is never overwritten, no other slot
\* is skipped, and between calls the enqueue pointer is not on a Link TRB.
C7_LinkCrossing ==
    /\ ring[LinkTrb].type = "LINK"
    /\ \A i \in Usable : ring[i].type # "LINK"
    /\ pc = "idle" => ring[enqueue_trb].type # "LINK"
    /\ ret = "EOK" =>
          /\ \A k \in 1..Len(td) : ring[TdSlot(k)].parameter = <<n_enq, k>>
          /\ enqueue_trb = Adv(saved_enqueue_trb, Len(td))
    /\ ret = "EAGAIN" => enqueue_trb = saved_enqueue_trb

\* A TD of two TRBs was stored around the Link TRB.
C7_Witness ==
    ret = "EOK" /\ Len(td) = 2 /\ saved_enqueue_trb = LinkTrb - 1

(***************************************************************************)
(* Properties of the event ring                                            *)
(***************************************************************************)
\* C8: xhci_event_ring_dequeue returns EOK and copies out the TRB at the
\* dequeue position iff that TRB's cycle bit equals CCS; otherwise it
\* returns ENOENT and leaves the dequeue TRB position, the dequeue segment,
\* CCS and the caller's event buffer as they were.
C8_DequeueIffCycle ==
    er_ret # "none" =>
        /\ er_ret = "EOK" <=> er0.trb.cycle = er0.ccs
        /\ er_ret = "EOK" => event = er0.trb
        /\ er_ret = "ENOENT" =>
              /\ dequeue_trb = er0.dequeue_trb
              /\ dequeue_segment = er0.dequeue_segment
              /\ ccs = er0.ccs
              /\ event = er0.event

\* ENOENT on the second lap: the slot holds an event of the first lap,
\* whose cycle bit no longer equals CCS, and the buffer keeps an event.
C8_Witness ==
    /\ er_ret = "ENOENT" /\ er0.trb.cycle = 1 /\ er0.ccs = 0
    /\ event # ZeroEvent

\* C9: the events dequeued with EOK are the produced events in production
\* order, none lost or duplicated, and a call returns ENOENT exactly when
\* every produced event had been dequeued when it began.
C9_EventOrder ==
    /\ Len(consumed) <= produced
    /\ \A i \in 1..Len(consumed) : consumed[i] = i
    /\ er_ret = "ENOENT" => er0.pending = 0
    /\ er_ret = "EOK" => er0.pending > 0

\* All events of two laps were dequeued, and the ring was found empty.
C9_Witness ==
    /\ Len(consumed) = 2 * SEGMENT_TRB_COUNT
    /\ er_ret = "ENOENT"

(***************************************************************************)
(* Properties of the enumeration                                           *)
(***************************************************************************)
\* C10: the assertion before the installation in devices_by_slot never
\* fails, and when rh_setup_device has returned EOK the enumeration issued
\* exactly one Enable Slot and one Address Device in the order Enable Slot,
\* registration of EP0, Address Device, installation; endpoints[0] is set;
\* devices_by_slot of the device's slot is the device and, for a USB3
\* device, devices_by_port of its port is the device as well.
C10_Enumeration ==
    /\ asserted # "devices_by_slot"
    /\ (bpc = "ret" /\ setup_ret = "EOK") =>
          /\ cmds = <<"ENABLE_SLOT", "EP0", "ADDRESS_DEVICE", "INSTALL">>
          /\ devs[cur_dev].endpoints0
          /\ devices_by_slot[devs[cur_dev].slot_id] = cur_dev
          /\ devs[cur_dev].usb3 => devices_by_port[cur_port] = cur_dev

\* C11: when rh_setup_device has returned an error for a device it had
\* created, no partial state remains: the slot the device obtained is not
\* enabled, EP0 is not registered in endpoints[0], and devices_by_slot holds
\* no entry for the device.
C11_NoPartialState ==
    (bpc = "ret" /\ setup_ret = "ERR" /\ cur_dev # 0) =>
        LET s == devs[cur_dev].slot_id
        IN /\ s # 0 => ~slot_enabled[s]
           /\ ~devs[cur_dev].endpoints0
           /\ \A t \in Slots : devices_by_slot[t] # cur_dev

\* A device node that exists has slot id s and its slot is in the
\* Addressed state (Configured is Addressed with more endpoints).
Addressed(s) ==
    /\ slot_enabled[s]
    /\ slot_addressed[s]
    /\ \E d \in Devs : devs[d].state = "live" /\ devs[d].slot_id = s

\* C12: in every reachable state and for every slot id s, DCBAA[s] is
\* non-zero iff a device with slot id s is in the Addressed or Configured
\* state.
C12_DcbaaIffAddressed ==
    \A s \in Slots : dcbaa[s] # 0 <=> Addressed(s)

\* The devices enumerated on port p that the bus or the controller still
\* knows: by devices_by_slot, or by an enabled slot whose context is theirs.
RemainingOn(p, by_slot, en, ctx) ==
    {d \in Devs : /\ devs[d].port = p
                  /\ \E s \in Slots : \/ by_slot[s] = d
                                      \/ en[s] /\ ctx[s] = d}

\* C13: when the disconnect of port p (CSC with CCS=0) has been handled,
\* the root hub is as it was before the connect: devices_by_port[p] is
\* NULL, devices_by_slot has no entry for a device enumerated on p, and no
\* slot enabled for such a device remains allocated.
C13_ConnectDisconnect ==
    [][(bpc = "disconnect" /\ bpc' = "prc") =>
          /\ devices_by_port'[cur_port] = 0
          /\ RemainingOn(cur_port, devices_by_slot', slot_enabled', dcbaa') = {}]_vars

(***************************************************************************)
(* Properties of endpoints and transfers                                   *)
(***************************************************************************)
\* C14: when handle_disconnected_device has returned for a device that had
\* batches scheduled and active as the disconnect was seen, an abort was issued for every
\* endpoint with an active batch, each of these batches has been finished
\* with an error, the slot is disabled, devices_by_slot of the slot and
\* devices_by_port of the port are NULL, and no endpoint holds an active
\* batch.
C14_DisconnectInFlight ==
    (dpc = "returned" /\ d0_active # {}) =>
        /\ \A x \in d0_active : x[1] \in aborted /\ berr[x[2]] = "ENAK"
        /\ ~slot_enabled[devs[Dev].slot_id]
        /\ devices_by_slot[devs[Dev].slot_id] = 0
        /\ devices_by_port[DevPort] = 0
        /\ \A e \in Eps : active_batch[e] = 0

Activated(e) ==
    {b \in Batches : sep[b] = e /\ b \in enqueued /\ berr[b] = "none"}

C17_BusyRefused ==
    [][\A b \in Batches :
          (spc[b] = "idle" /\ spc'[b] = "activate") =>
              active_batch[sep'[b]] = 0]_vars

\* C18: the doorbell of a call of xhci_transfer_schedule is rung only after
\* the TD has been enqueued, with the slot id of the device and the DCI of
\* the endpoint as target, and once: a call that has returned EOK has rung
\* it exactly once; a call whose TD could not be built or enqueued has not
\* rung it, has left the endpoint deactivated and has returned the error.
C18_DoorbellAfterEnqueue ==
    \A b \in Batches :
        /\ doorbells[b] # <<>> =>
              /\ b \in enqueued
              /\ doorbells[b] =
                    <<<<devs[Dev].slot_id, xhci_endpoint_dci(sep[b])>>>>
        /\ (spc[b] = "idle" /\ sret[b] = "EOK") => Len(doorbells[b]) = 1
        /\ (spc[b] = "idle" /\ sret[b] = "ERR") =>
              /\ doorbells[b] = <<>>
              /\ b \notin enqueued
              /\ active_batch[sep[b]] # b

\* One call has failed in the transfer handler, another has enqueued its
\* TD and rung the doorbell.
C18_Witness ==
    \E b, c \in Batches :
        /\ spc[b] = "idle" /\ sret[b] = "ERR"
        /\ spc[c] = "idle" /\ sret[c] = "EOK"
        /\ Len(doorbells[c]) = 1


\* The call of xhci_transfer_schedule for batch b has been made.
Called(b) == spc[b] # "idle" \/ sret[b] # "none"

\* C19: a call of xhci_transfer_schedule made while the device is offline on
\* an endpoint with number > 0 has returned EAGAIN, and it has neither
\* activated the endpoint, nor enqueued TRBs, nor rung the doorbell; a call
\* on EP0 of an offline device is not refused for the device being offline.
C19_OfflineSchedule ==
    \A b \in Batches :
        (Called(b) /\ ~s_online[b]) =>
            IF EndpointNumber(sep[b]) > 0
            THEN /\ spc[b] = "idle"
                 /\ sret[b] = "EAGAIN"
                 /\ b \notin enqueued
                 /\ doorbells[b] = <<>>
                 /\ active_batch[sep[b]] # b
            ELSE sret[b] # "EAGAIN"

\* A call on an endpoint with number > 0 was refused after the device was
\* marked offline by its disconnect.
C19_Witness ==
    \E b \in Batches :
        /\ spc[b] = "idle"
        /\ sret[b] = "EAGAIN"
        /\ EndpointNumber(sep[b]) > 0
        /\ ~s_online[b]
        /\ ~online
        /\ dpc = "detached"


\* A call of register_endpoint returns in this step.
RegisterReturns == n_ops' = n_ops + 1 /\ op_ret'.op = "register"

\* The call fails and leaves endpoints[] and active_endpoint_count alone.
RegisterFails ==
    /\ op_ret'.ret # "EOK"
    /\ endpoints' = endpoints
    /\ active_endpoint_count' = active_endpoint_count

OnlineReturns == n_ops' = n_ops + 1 /\ op_ret'.op = "online"
OfflineReturns == n_ops' = n_ops + 1 /\ op_ret'.op = "offline"

\* C21: the online flag becomes true only after a Configure Device command
\* of the device has succeeded, online_device never leaves the flag true
\* when hc_configure_device failed, and offline_device clears the flag only
\* together with a Deconfigure Device command.
C21_OnlineNeedsConfigure ==
    [][/\ (online' /\ ~online) => hc_cmd' = [cmd |-> "configure", ret |-> "EOK"]
       /\ (OnlineReturns /\ hc_cmd'.ret # "EOK") => ~online'
       /\ (OfflineReturns /\ online /\ ~online') => hc_cmd'.cmd = "deconfigure"]_vars


\* The batch is a control transfer whose setup packet is a standard
\* Set-Configuration or Set-Interface request.
StandardSetRequest ==
    /\ xfer.type = "CONTROL"
    /\ (xfer.setup.request_type \div 32) % 4 = 0
    /\ xfer.setup.request \in {9, 11}

\* The positions of the call's log with the operation op.
LogOf(op) == {i \in 1..Len(xlog) : xlog[i].op = op}

\* C22: for a standard Set-Configuration or Set-Interface request the
\* Configure Endpoint command has completed successfully before the TD is
\* enqueued; when the command fails nothing is enqueued, the doorbell is
\* not rung and the error is returned; for every other batch the call
\* gives no Configure Endpoint command.
C22_ConfigureBeforeEnqueue ==
    IF StandardSetRequest
    THEN /\ (LogOf("enqueue") # {} \/ xring # <<>>) =>
               /\ xlog[1] = [op |-> "configure", ret |-> "EOK"]
               /\ \A i \in LogOf("enqueue") : i > 1
         /\ (xlog # <<>> /\ xlog[1] = [op |-> "configure", ret |-> "ERR"]) =>
               /\ xring = <<>>
               /\ LogOf("enqueue") = {} /\ LogOf("doorbell") = {}
               /\ xpc = "returned" /\ xret = "ERR"
    ELSE LogOf("configure") = {}

\* A Set-Configuration or Set-Interface request was scheduled: command,
\* enqueue, doorbell.
C22_Witness ==
    /\ StandardSetRequest
    /\ xpc = "scheduled"
    /\ Len(xlog) = 3
    /\ xring = trbs /\ trbs # <<>>

\* C23: after the Transfer Event of an active batch was handled the
\* transferred size is buffer_size minus the event's transfer length and
\* lies in 0..buffer_size, for every value of the length field; the
\* assertion before the IN copy holds; a length of 0 on success reports the
\* whole buffer with EOK.
C23_TransferedSize ==
    xev_ret \in {"EOK", "assert"} =>
        /\ transfered_size = xfer.buffer_size - xev.length
        /\ 0 <= transfered_size /\ transfered_size <= xfer.buffer_size
        /\ xpc # "assert"
        /\ (xev.length = 0 /\ xev.code = "SUCCESS") =>
              transfered_size = xfer.buffer_size /\ batch_error = "EOK"

\* C24: the batch error is EOK iff the completion code is Success; a stall
\* or another error code gives an error different from the one of a NAK;
\* the driver is not aborted.
C24_Classified ==
    xev_ret \in {"EOK", "assert"} =>
        /\ batch_error = "EOK" <=> xev.code = "SUCCESS"
        /\ xev.code # "SUCCESS" => batch_error # "ENAK"
        /\ xpc # "assert"


\* The positions of the TD's TRBs of the type.
Stage(type) == {i \in 1..Len(trbs) : trbs[i].type = type}

\* C30: the TD schedule_control builds is a Setup Stage TRB (IDT = 1,
\* transfer length 8), then a Data Stage TRB iff wLength > 0, then a Status
\* Stage TRB with IOC = 1: two TRBs when wLength = 0 and three otherwise;
\* with a Data Stage TRB the Status Stage has the opposite direction.
C30_ControlTD ==
    (xfer.type = "CONTROL" /\ trbs # <<>>) =>
        LET n == Len(trbs) IN
        /\ n = IF xfer.setup.length = 0 THEN 2 ELSE 3
        /\ Stage("SETUP_STAGE") = {1}
        /\ trbs[1].idt = 1 /\ trbs[1].xfer_len = 8
        /\ Stage("DATA_STAGE") = IF xfer.setup.length > 0 THEN {2} ELSE {}
        /\ Stage("STATUS_STAGE") = {n}
        /\ trbs[n].ioc = 1
        /\ Stage("DATA_STAGE") # {} => trbs[n].dir # trbs[2].dir
        /\ xring \in {<<>>, trbs}

\* The TD of a device-to-host request with data is on the ring: Data Stage
\* IN, Status Stage OUT.
C30_Witness ==
    /\ xfer.type = "CONTROL"
    /\ xfer.setup.request_type = 128 /\ xfer.setup.length > 0
    /\ xring = trbs /\ Len(trbs) = 3
    /\ trbs[2].dir = STAGE_IN /\ trbs[3].dir = STAGE_OUT


\* xhci_handle_transfer_event returns in this step.
EventHandled == xev_ret = "pending" /\ xev_ret' # "pending"

\* The event names a slot without device or an endpoint the device does not
\* have; it names an endpoint of the device that has no active batch.
LookupMiss == xev.slot_id # OwnSlot \/ xev.ep_dci \div 2 \notin {0, OwnNumber}
NoActiveBatch == ~LookupMiss /\ ~(xev.ep_dci \div 2 = OwnNumber /\ xactive)

\* The active batch and the fields of the batch are as before the call.
BatchUntouched == UNCHANGED <<xactive, xpc, batch_error, transfered_size>>

\* C25 as stated: an event whose slot has no device, whose endpoint is not
\* registered or whose endpoint has no active batch is answered with ENOENT
\* and changes nothing: not the dequeue pointer of a ring, not the active
\* batch, not a field of a batch.
C25_MissChangesNothing ==
    [][(EventHandled /\ (LookupMiss \/ NoActiveBatch)) =>
           /\ xev_ret' = "ENOENT"
           /\ BatchUntouched
           /\ UNCHANGED xdequeue]_vars

\* C25: an event whose slot has no device or whose endpoint is not
\* registered is answered with ENOENT and changes nothing; an event for an
\* endpoint without active batch is answered with ENOENT and leaves the
\* batches alone, but the dequeue pointer of the endpoint's ring is set to
\* the address the event names.
C25_MissChangesDequeueOnly ==
    [][EventHandled =>
           /\ LookupMiss =>
                 /\ xev_ret' = "ENOENT"
                 /\ BatchUntouched
                 /\ UNCHANGED xdequeue
           /\ NoActiveBatch =>
                 /\ xev_ret' = "ENOENT"
                 /\ BatchUntouched
                 /\ xdequeue' = [xdequeue EXCEPT ![xev.ep_dci \div 2] = xev.addr]]_vars

\* An event for the endpoint of a finished batch was answered with ENOENT
\* and moved the dequeue pointer of the endpoint's ring.
C25_Witness ==
    /\ xpc = "finished"
    /\ xev_ret = "ENOENT"
    /\ xev.slot_id = OwnSlot /\ xev.ep_dci = OwnDci
    /\ xdequeue[OwnNumber] = Len(xring) + 1


\* xhci_handle_transfer_event finishes batch b in this step.
Finishes(b) ==
    /\ xevq # <<>> /\ xevq' = Tail(xevq)
    /\ \E e \in Eps : active_batch[e] = b /\ active_batch'[e] = 0

\* The disconnect has been handled, no call is under way and no Transfer
\* Event is left to handle.
Settled ==
    /\ dpc = "returned"
    /\ xevq = <<>>
    /\ \A b \in Batches : spc[b] = "idle"

\* C26: whatever the order of the completions and of the aborts of a
\* removal or disconnect, every scheduled batch is finished exactly once:
\* no batch is finished twice, the abort leaves endpoints without active
\* batch alone, and no batch is left unfinished with its endpoint marked
\* active.
C26_FinishedOnce ==
    /\ [][\A b \in Batches : Finishes(b) => berr[b] = "none" /\ berr'[b] # "none"]_vars
    /\ [][\A e \in Eps : (active_batch[e] = 0 /\ e \notin aborted) =>
                            e \notin aborted']_vars
    /\ [](Settled =>
             /\ \A b \in Batches : sret[b] = "EOK" => berr[b] # "none"
             /\ \A e \in Eps : active_batch[e] = 0)

(***************************************************************************)
(* The scan of the root hub ports                                          *)
(***************************************************************************)
\* The step of lines 291-292: PORTSC of port i is read and written back.
PortRead == bpc = "port" /\ bpc' = "csc"

\* xhci_rh_handle_port_status_change_event returns (line 283).
HandlerReturns == bpc # "idle" /\ bpc' = "idle"

Connect ==
    /\ bpc = "csc" /\ bpc' # "csc"
    /\ "CSC" \in events
    /\ portsc[cur_port].ccs

\* rh_setup_device is entered for port i.
Enumerates == bpc # "setup" /\ bpc' = "setup"

SetupSteps ==
    {"setup", "lock", "enable_slot", "create_ep0", "prepare_ep0", "add_ep0",
     "address", "install", "explore", "bind", "save", "ret"}

\* rh_setup_device returns EOK in this step.
SetupSucceeds == bpc' = "ret" /\ setup_ret' = "EOK"

\* The handler waits at fibril_mutex_lock (bus.c 156) for a guard that no
\* fibril is going to release: the scan does not go on.
ScanBlocked == bpc = "lock" /\ bus_guard

\* An assertion has failed inside the scan: the driver has been aborted.
ScanAborted == bpc = "abort"

\* C29: an error met while one port is handled does not leave the port
\* monitor: the scan is neither blocked nor aborted, so the remaining
\* ports are processed and the handler returns EOK, and no step of an
\* enumeration other than its successful end changes devices_by_port.
C29_ErrorsContained ==
    /\ [](~ScanBlocked /\ ~ScanAborted)
    /\ [][(bpc \in SetupSteps /\ ~SetupSucceeds)
             => (devices_by_port' = devices_by_port)]_vars

(***************************************************************************)
(* The TRT field of the Setup Stage TRB                                    *)
(***************************************************************************)
\* C31: the TRT field of the Setup Stage TRB is No Data Stage when
\* wLength = 0, IN Data Stage when wLength > 0 and the request is
\* device-to-host, OUT Data Stage when wLength > 0 and the request is
\* host-to-device; it names a data stage exactly when the TD has a Data
\* Stage TRB.
C31_TrtEncoding ==
    (xfer.type = "CONTROL" /\ trbs # <<>>) =>
        /\ trbs[1].trt =
              IF xfer.setup.length = 0 THEN DATA_STAGE_NO
              ELSE IF (xfer.setup.request_type \div 128) % 2 = 1
                   THEN DATA_STAGE_IN
                   ELSE DATA_STAGE_OUT
        /\ (trbs[1].trt # DATA_STAGE_NO) <=> (Stage("DATA_STAGE") # {})

(***************************************************************************)
(* Tier, route string and root hub port                                    *)
(***************************************************************************)
\* The root hub port the device hangs on: its own port when it is attached
\* to the root hub, else that of its hub.
RECURSIVE RootHubPort(_)
RootHubPort(i) ==
    IF nodes[i].hub = 0 THEN nodes[i].port ELSE RootHubPort(nodes[i].hub)

\* The route string with nibble k replaced by v.
WithNibble(route_str, k, v) ==
    route_str - ((route_str \div 16 ^ k) % 16) * 16 ^ k + v * 16 ^ k

\* C32: every enumerated device has the tier of its hub plus one, the
\* route string of its hub, with (port & 0xF) at nibble tier - 2 when its
\* tier is 2 or more and unchanged when its tier is 1, and the root hub
\* port it hangs on as rh_port, also when it is attached to the root hub
\* itself.
C32_RouteString ==
    \A i \in 1..Len(nodes) :
       LET dev == nodes[i]
           hub == HubDevice(dev.hub)
       IN /\ dev.tier = hub.tier + 1
          /\ dev.route_str =
                IF dev.tier >= 2
                THEN WithNibble(hub.route_str, dev.tier - 2, dev.port % 16)
                ELSE hub.route_str
          /\ dev.rh_port = RootHubPort(i)

\* The last access is a read or a write of the endpoint's active transfer
\* made without that endpoint's guard.
UnguardedActive == acc.obj = "active" /\ ~acc.guarded

\* The last access is a write of ring->dequeue made outside
\* xhci_handle_transfer_event.
ForeignDequeueWrite ==
    acc.obj = "dequeue" /\ acc.kind = "write" /\ acc.fibril # "event"

\* C33: every read and every read-modify-write of an endpoint's active
\* transfer is made under that endpoint's guard, ring->dequeue is written
\* only by the event dispatcher, and no fibril breaks either rule while
\* another fibril holds the endpoint's guard for a schedule or an enqueue.
C33_ActiveUnderGuard ==
    /\ ~UnguardedActive
    /\ ~ForeignDequeueWrite
    /\ ~(/\ (UnguardedActive \/ ForeignDequeueWrite)
         /\ acc.ep_owner \notin {"none", acc.fibril})

\* The last access is a write of devices_by_slot or of devices_by_port
\* made without the bus guard and without the root hub guard.
UnguardedTableWrite ==
    acc.obj \in {"by_slot", "by_port"} /\ acc.kind = "write" /\ ~acc.guarded

\* The event dispatcher has read a table entry that refers to a destroyed
\* device, or has used a device that has been destroyed since the lookup.
StaleLookup == acc.fibril = "event" /\ acc.freed

\* C34: every write of devices_by_slot and of devices_by_port, installing
\* or clearing, is made under the root hub or bus guard, and the lookup of
\* a transfer event never observes an entry of a destroyed device.
C34_TablesUnderGuard == ~UnguardedTableWrite /\ ~StaleLookup

\* address_device has returned EOK: xhci_bus_enumerate_device is at its
\* assertions, bus.c line 164.
AddressDeviceEok == bpc = "install"

\* C35: address_device returns EOK only if the slot is enabled, EP0 is
\* registered in endpoints[0] and Address Device has succeeded; a failure
\* of any step, the creation of the EP0 object included, gives an error,
\* so that the assertion on endpoints[0] never fails.
C35_AddressDeviceResult ==
    /\ AddressDeviceEok =>
          LET s == devs[cur_dev].slot_id
          IN /\ slot_enabled[s]
             /\ devs[cur_dev].endpoints0
             /\ slot_addressed[s]
    /\ asserted # "endpoints0"

\* rh_setup_device has returned to its caller.
SetupReturned == bpc = "ret"

\* C36: the bus guard taken by xhci_bus_enumerate_device is released on
\* every return path: it is free when rh_setup_device has returned, and no
\* later enumeration waits for a guard that is still held.
C36_GuardReleased ==
    /\ SetupReturned => ~bus_guard
    /\ ~ScanBlocked

\* Device e is on root hub port p with an enabled slot of its own.
OnPort(e, p) ==
    /\ devs[e].state = "live"
    /\ devs[e].port = p
    /\ devs[e].slot_id # 0
    /\ slot_enabled[devs[e].slot_id]
    /\ devices_by_slot[devs[e].slot_id] = e

\* C37: when rh_setup_device has enumerated a device it is the device
\* recorded in devices_by_port for its port, and no other device with an
\* enabled slot is on that port.
C37_OneDevicePerPort ==
    (bpc = "ret" /\ setup_ret = "EOK") =>
        /\ devices_by_port[cur_port] = cur_dev
        /\ \A e \in Devs \ {cur_dev} : ~OnPort(e, cur_port)

\* The number of entries of log that are step.
RECURSIVE Times(_, _)
Times(log, step) ==
    IF log = <<>> THEN 0
    ELSE (IF Head(log) = step THEN 1 ELSE 0) + Times(Tail(log), step)

\* handle_disconnected_device has torn down the device of the port.
TornDown == bpc = "prc" /\ cmds # <<>> /\ cmds[1] = "UNBIND"

\* C38: one disconnect tears the device down exactly once: one Disable
\* Slot, for the device's slot and no other, one unbind of the DDF
\* function, one destruction of the device, and no read of a field of the
\* device after its destruction.
C38_TornDownOnce ==
    TornDown =>
        /\ Times(cmds, "DISABLE_SLOT") = 1
        /\ Times(cmds, "DISABLE_OTHER_SLOT") = 0
        /\ Times(cmds, "UNBIND") = 1
        /\ Times(cmds, "DESTROY") = 1
        /\ Times(cmds, "READ_DESTROYED") = 0

\* xhci_bus_init, bus.c line 561: the table has hc->max_slots entries,
\* whose indices start at 0.
TableIndices == 0..(MaxSlots - 1)

\* xhci_bus_enumerate_device is at bus.c lines 166-167, where it indexes
\* devices_by_slot with the slot id of the device.
IndexesTable == bpc = "install" /\ devs[cur_dev].endpoints0

\* C39: the slot id with which devices_by_slot is indexed, an id handed
\* out by Enable Slot from 1..MaxSlots, is an index of the table that
\* xhci_bus_init has allocated.
C39_SlotIndexInBounds ==
    IndexesTable => devs[cur_dev].slot_id \in TableIndices

\* The step is a call of request_address for address a that did not stop
\* at the assertion on strict.
Requested(a) ==
    /\ n_addr' = n_addr + 1
    /\ addr_ret'.op = "request"
    /\ addr_ret'.addr = a
    /\ addr_ret'.ret # "assert"

\* C40: the default address is held by at most one requester: a request
\* for another address returns ENOTSUP and changes nothing; while a
\* request for the default address has returned EOK and no release has
\* followed, every request, whatever its speed, returns ENOENT; after
\* the release the next request returns EOK.
C40_DefaultAddressExclusive ==
    /\ [](holders <= 1)
    /\ [][/\ \A a \in Addresses \ {USB_ADDRESS_DEFAULT} :
               Requested(a) =>
                  /\ addr_ret'.ret = "ENOTSUP"
                  /\ default_address_speed' = default_address_speed
          /\ Requested(USB_ADDRESS_DEFAULT) =>
                addr_ret'.ret = (IF held THEN "ENOENT" ELSE "EOK")]_vars

====
